---- MODULE Spec2Model ----
(***************************************************************************)
(* Record validation, normalisation and batch ingestion of the renewable   *)
(* energy pipeline: the three validator copies (lambda_processor,          *)
(* anomaly_alerting, error_handling), the three ingestion handlers, the    *)
(* alerting and error handling objects, the continuous uploader, the       *)
(* record generators and the query API.                                    *)
(*                                                                         *)
(* Numbers are modelled as the code computes them: float() yields an IEEE  *)
(* binary64 value (53-bit significand, round to nearest even), the         *)
(* subtraction is the binary64 subtraction, and Decimal(str(x)) is the     *)
(* shortest decimal string that reads back as x.  Significands do not fit  *)
(* the model checker's integers, so naturals are little-endian sequences   *)
(* of 15-bit limbs.                                                        *)
(***************************************************************************)
EXTENDS Integers, Sequences, FiniteSets, TLC

VARIABLES
  handler,            \* the ingestion entry point that was invoked
  event,              \* the invocation event: "s3_put", or "malformed"
  s3_object,          \* the uploaded file: a list of raw records, or NotJson
  pc,                 \* position of the handler
  records,            \* the parsed batch
  index,              \* 1-based position of the loop in records
  processed_count,
  anomaly_count,
  anomalies_detected,
  error_count,
  error_handler,      \* the PipelineErrorHandler: error_counts and its log
  table,              \* items written to the energy-data table, in order
  trace,              \* calls made so far: validate, put_item, publish
  clock,              \* utcnow(), advanced by every validation
  response,           \* what the handler returned
  validator,          \* the validator applied to raw
  raw,                \* a raw record handed to a validator directly
  outcome,            \* what that validator answered
  uploader,           \* the ContinuousEnergyUploader object
  remaining           \* seconds left of the wait of run_continuous

vars == <<handler, event, s3_object, pc, records, index, processed_count,
          anomaly_count, anomalies_detected, error_count, error_handler,
          table, trace, clock, response, validator, raw, outcome, uploader,
          remaining>>

(***************************************************************************)
(* Naturals of any size: <<>> is 0, no leading (high) zero limb.           *)
(* A value computed once and used several times is handed on as an         *)
(* operator argument.                                                      *)
(***************************************************************************)
Base == 2^15

RECURSIVE FromInt(_)
FromInt(n) == IF n = 0 THEN <<>> ELSE <<n % Base>> \o FromInt(n \div Base)

RECURSIVE Strip(_)
Strip(x) ==
  IF x = <<>> THEN <<>>
  ELSE IF x[Len(x)] = 0 THEN Strip(SubSeq(x, 1, Len(x) - 1)) ELSE x

Limb(x, i) == IF i <= Len(x) THEN x[i] ELSE 0

Rest(x) == IF x = <<>> THEN x ELSE Tail(x)

\* x + y + c, limb by limb with a carry
RECURSIVE AddC(_, _, _)
AddC(x, y, c) ==
  IF x = <<>> /\ y = <<>> THEN (IF c = 0 THEN <<>> ELSE <<c>>)
  ELSE LET s == Limb(x, 1) + Limb(y, 1) + c
       IN  <<s % Base>> \o AddC(Rest(x), Rest(y), s \div Base)

Add(x, y) == AddC(x, y, 0)

\* x - y - b for x >= y, limb by limb with a borrow
RECURSIVE SubB(_, _, _)
SubB(x, y, b) ==
  IF x = <<>> THEN <<>>
  ELSE LET s == x[1] - Limb(y, 1) - b
       IN  <<s % Base>> \o SubB(Tail(x), Rest(y), IF s < 0 THEN 1 ELSE 0)

Sub(x, y) == Strip(SubB(x, y, 0))

\* -1, 0, 1 as x <, =, > y
RECURSIVE CmpFrom(_, _, _)
CmpFrom(x, y, i) ==
  IF i = 0 THEN 0
  ELSE IF x[i] < y[i] THEN -1
  ELSE IF x[i] > y[i] THEN 1
  ELSE CmpFrom(x, y, i - 1)

Cmp(x, y) ==
  IF Len(x) < Len(y) THEN -1
  ELSE IF Len(x) > Len(y) THEN 1
  ELSE CmpFrom(x, y, Len(x))

\* x * k + c for a small k (k < Base)
RECURSIVE MulC(_, _, _)
MulC(x, k, c) ==
  IF x = <<>> THEN FromInt(c)
  ELSE LET s == x[1] * k + c
       IN  <<s % Base>> \o MulC(Tail(x), k, s \div Base)

MulSmall(x, k) == IF k = 0 THEN <<>> ELSE MulC(x, k, 0)

\* x * 10^n, four decimal digits at a time
RECURSIVE MulPow10(_, _)
MulPow10(x, n) ==
  IF n >= 4 THEN MulPow10(MulSmall(x, 10000), n - 4) ELSE MulSmall(x, 10^n)

\* x * 2^n: whole limbs first, then the bits left
Shl(x, n) ==
  IF x = <<>> THEN <<>>
  ELSE [i \in 1..(n \div 15) |-> 0] \o MulSmall(x, 2^(n % 15))

RECURSIVE BitsOf(_)
BitsOf(n) == IF n = 0 THEN 0 ELSE 1 + BitsOf(n \div 2)

BitLen(x) == IF x = <<>> THEN 0 ELSE 15 * (Len(x) - 1) + BitsOf(x[Len(x)])

\* x / 2^n for n < 15, the bits shifted out dropped
Shr(x, n) ==
  Strip([i \in 1..Len(x) |->
           (x[i] \div 2^n)
             + (IF i < Len(x) THEN (x[i + 1] % 2^n) * 2^(15 - n) ELSE 0)])

IsOdd(x) == x # <<>> /\ x[1] % 2 = 1

Least(S) == CHOOSE n \in S : \A j \in S : n <= j
Greatest(S) == CHOOSE n \in S : \A j \in S : j <= n

\* the quotient limb d with d * y <= r < (d + 1) * y, for r < y * Base and a
\* y whose top limb is at least Base / 2: the two top limbs rt of r bracket
\* d closely
QuotRem(r, y, d) == [d |-> d, r |-> Sub(r, MulSmall(y, d))]

DivLimb(r, y) ==
  LET rt == Limb(r, Len(y) + 1) * Base + Limb(r, Len(y))
  IN  QuotRem(r, y,
        Greatest({c \in (rt \div (y[Len(y)] + 1))..(rt \div y[Len(y)]) :
                    c < Base /\ Cmp(MulSmall(y, c), r) <= 0}))

\* long division of the limbs i..1 of x by y: q the quotient limbs found so
\* far (no leading zero limb is kept), r the remainder so far, h the limb
\* just divided
RECURSIVE DivFrom(_, _, _, _, _)
RECURSIVE DivNext(_, _, _, _, _)
DivNext(x, y, i, q, h) ==
  IF h.d = 0 /\ q = <<>>
  THEN DivFrom(x, y, i - 1, q, h.r)
  ELSE DivFrom(x, y, i - 1, <<h.d>> \o q, h.r)

DivFrom(x, y, i, q, r) ==
  IF i = 0 THEN [q |-> q, r |-> r]
  ELSE DivNext(x, y, i, q, DivLimb(Strip(<<x[i]>> \o r), y))

\* quotient and remainder of x by y (y > 0): both scaled by 2^s so that the
\* top limb of the divisor is at least Base / 2, the remainder scaled back
Unscaled(h, s) == [q |-> h.q, r |-> Shr(h.r, s)]

DivAll(xs, ys) == DivFrom(xs, ys, Len(xs), <<>>, <<>>)

DivMod(x, y) ==
  LET s == 15 - BitsOf(y[Len(y)])
  IN  Unscaled(DivAll(MulSmall(x, 2^s), MulSmall(y, 2^s)), s)

\* the division of the fraction fr.n / fr.d, and c: -1, 0, 1 as the
\* remainder is below, at, above half of fr.d
WithHalf(h, y) == [q |-> h.q, r |-> h.r, c |-> Cmp(MulSmall(h.r, 2), y)]

DivHalf(fr) == WithHalf(DivMod(fr.n, fr.d), fr.d)

\* whether the quotient h rounds up: to the nearest, ties to even
RoundsUp(h) == h.c > 0 \/ (h.c = 0 /\ IsOdd(h.q))

(***************************************************************************)
(* Python float: binary64.  A finite non-zero value is (-1)^neg * m * 2^e  *)
(* with 2^52 <= m < 2^53.  The values of the model stay far from the       *)
(* exponent limits, so subnormals and overflow do not arise; the sign of   *)
(* zero is not kept (-0.0 < 0 is false, as for 0.0).                       *)
(***************************************************************************)
MantissaBits == 53

FZero == [k |-> "zero"]
FNaN == [k |-> "nan"]
FInf(neg) == [k |-> "inf", neg |-> neg]
FFin(neg, m, e) == [k |-> "fin", neg |-> neg, m |-> m, e |-> e]

\* m * 2^e with m rounded already: a carry out of the 53 bits moves on e
Carried(neg, m, e) ==
  IF BitLen(m) > MantissaBits
  THEN FFin(neg, Shl(<<1>>, MantissaBits - 1), e + 1)
  ELSE FFin(neg, m, e)

\* h the division of num * 2^s by den, a quotient of 53 or of 54 bits; of a
\* 54-bit quotient the lowest bit is rounded away with the remainder
RoundQuot(neg, h, s) ==
  IF BitLen(h.q) > MantissaBits
  THEN Carried(neg,
         IF IsOdd(h.q) /\ (h.r # <<>> \/ IsOdd(Shr(h.q, 1)))
         THEN Add(Shr(h.q, 1), <<1>>) ELSE Shr(h.q, 1),
         1 - s)
  ELSE Carried(neg, IF RoundsUp(h) THEN Add(h.q, <<1>>) ELSE h.q, -s)

\* the binary64 nearest to num / den (num > 0), ties to even
RoundRat(neg, num, den) ==
  LET s == MantissaBits - (BitLen(num) - BitLen(den))
  IN  RoundQuot(neg,
        DivHalf([n |-> IF s >= 0 THEN Shl(num, s) ELSE num,
                 d |-> IF s >= 0 THEN den ELSE Shl(den, -s)]),
        s)

\* the float a decimal literal (-1)^neg * c * 10^x reads as (c a natural)
ParseDec(neg, c, x) ==
  IF c = <<>> THEN FZero
  ELSE RoundRat(neg, IF x >= 0 THEN MulPow10(c, x) ELSE c,
                IF x >= 0 THEN <<1>> ELSE MulPow10(<<1>>, -x))

FloatOfInt(n) == ParseDec(n < 0, FromInt(IF n < 0 THEN -n ELSE n), 0)

\* magnitudes of two finite non-zero floats on their common exponent
Aligned(a, b) ==
  LET lo == IF a.e < b.e THEN a.e ELSE b.e
  IN  [a |-> Shl(a.m, a.e - lo), b |-> Shl(b.m, b.e - lo), e |-> lo]

CmpAligned(al) == Cmp(al.a, al.b)

\* -1, 0, 1 for two floats neither of which is nan
SignOf(a) ==
  IF a.k = "zero" THEN 0 ELSE IF a.neg THEN -1 ELSE 1

MagCmp(a, b) ==
  IF a.k = "inf" THEN (IF b.k = "inf" THEN 0 ELSE 1)
  ELSE IF b.k = "inf" THEN -1
  ELSE CmpAligned(Aligned(a, b))

FloatCmp(a, b) ==
  IF SignOf(a) # SignOf(b) THEN (IF SignOf(a) < SignOf(b) THEN -1 ELSE 1)
  ELSE IF SignOf(a) = 0 THEN 0
  ELSE SignOf(a) * MagCmp(a, b)

\* a < b and a > b as Python compares floats: false when either is nan
FloatLt(a, b) == a.k # "nan" /\ b.k # "nan" /\ FloatCmp(a, b) < 0
FloatGt(a, b) == a.k # "nan" /\ b.k # "nan" /\ FloatCmp(a, b) > 0

FloatNeg(a) ==
  IF a.k \in {"zero", "nan"} THEN a ELSE [a EXCEPT !.neg = ~a.neg]

Scaled(r, e) == [r EXCEPT !.e = r.e + e]

\* a + b for finite non-zero a, b: the exact sum, rounded once; c compares
\* the aligned magnitudes
SumAligned(a, b, al, c) ==
  IF a.neg # b.neg /\ c = 0 THEN FZero
  ELSE Scaled(RoundRat(IF a.neg = b.neg \/ c > 0 THEN a.neg ELSE b.neg,
                       IF a.neg = b.neg THEN Add(al.a, al.b)
                       ELSE IF c > 0 THEN Sub(al.a, al.b)
                       ELSE Sub(al.b, al.a),
                       <<1>>),
              al.e)

AddAligned(a, b, al) == SumAligned(a, b, al, CmpAligned(al))

FiniteAdd(a, b) == AddAligned(a, b, Aligned(a, b))

FloatAdd(a, b) ==
  IF a.k = "nan" \/ b.k = "nan" THEN FNaN
  ELSE IF a.k = "inf" THEN (IF b.k = "inf" /\ b.neg # a.neg THEN FNaN ELSE a)
  ELSE IF b.k = "inf" THEN b
  ELSE IF a.k = "zero" THEN b
  ELSE IF b.k = "zero" THEN a
  ELSE FiniteAdd(a, b)

\* a faulty subtraction: the operands are added
FloatSum(a, b) == FloatAdd(a, b)

FloatSub(a, b) == FloatAdd(a, FloatNeg(b))

\* a / b of two ints, b # 0: the float nearest to the quotient
TrueDiv(a, b) ==
  IF a = 0 THEN FZero
  ELSE RoundRat((a < 0) # (b < 0), FromInt(IF a < 0 THEN -a ELSE a),
                FromInt(IF b < 0 THEN -b ELSE b))

\* a * n for a float a and an int n > 0 that float(n) holds exactly: the
\* exact product, rounded once
FloatTimes(a, n) ==
  IF a.k = "fin" THEN Scaled(RoundRat(a.neg, MulSmall(a.m, n), <<1>>), a.e)
  ELSE a

(***************************************************************************)
(* decimal.Decimal: (-1)^neg * c * 10^x, NaN or an infinity.               *)
(* Decimal(str(f)) reads the repr of f: the shortest digit string that     *)
(* float() reads back as f (at most 17 significant digits).                *)
(***************************************************************************)
MaxReprDigits == 17

DZero == [k |-> "fin", neg |-> FALSE, c |-> <<>>, x |-> 0]
DNaN == [k |-> "nan"]
DInf(neg) == [k |-> "inf", neg |-> neg]
DFin(neg, c, x) == [k |-> "fin", neg |-> neg, c |-> c, x |-> x]

\* m * 2^e * 10^k as a fraction n / d
ScaledFrac(f, k) ==
  [n |-> MulPow10(IF f.e >= 0 THEN Shl(f.m, f.e) ELSE f.m,
                  IF k >= 0 THEN k ELSE 0),
   d |-> MulPow10(IF f.e >= 0 THEN <<1>> ELSE Shl(<<1>>, -f.e),
                  IF k >= 0 THEN 0 ELSE -k)]

BelowOne(fr) == Cmp(fr.n, fr.d) < 0

\* the p with 10^p <= |f| < 10^(p+1), searched upward from p
RECURSIVE Log10From(_, _)
Log10From(f, p) ==
  IF BelowOne(ScaledFrac(f, -(p + 1))) THEN p ELSE Log10From(f, p + 1)

\* a lower estimate of the decimal exponent from the binary one
Log10Low(f) == (((BitLen(f.m) + f.e - 1) * 30103) \div 100000) - 1

\* the quotient h rounded to the nearest, and its other neighbour
NearFar(h, x) ==
  [near |-> IF RoundsUp(h) THEN Add(h.q, <<1>>) ELSE h.q,
   far |-> IF RoundsUp(h) THEN h.q ELSE Add(h.q, <<1>>),
   x |-> x]

\* f to n significant digits, 10^p <= |f| < 10^(p+1)
Digits(f, p, n) == NearFar(DivHalf(ScaledFrac(f, n - 1 - p)), p + 1 - n)

\* the candidate d that float() reads back as f, if one does
Matching(f, d) ==
  IF ParseDec(f.neg, d.near, d.x) = f THEN <<DFin(f.neg, d.near, d.x)>>
  ELSE IF ParseDec(f.neg, d.far, d.x) = f THEN <<DFin(f.neg, d.far, d.x)>>
  ELSE <<>>

ReadsBack(f, p, n) == Matching(f, Digits(f, p, n))

\* the shortest digit string that reads back as f
RECURSIVE ReprFrom(_, _, _)
ReprNext(f, p, n, found) ==
  IF found # <<>> \/ n >= MaxReprDigits THEN found[1]
  ELSE ReprFrom(f, p, n + 1)

ReprFrom(f, p, n) == ReprNext(f, p, n, ReadsBack(f, p, n))

Repr(f, p) == ReprFrom(f, p, 1)

DecimalOfStr(f) ==
  IF f.k = "nan" THEN DNaN
  ELSE IF f.k = "inf" THEN DInf(f.neg)
  ELSE IF f.k = "zero" THEN DZero
  ELSE Repr(f, Log10From(f, Log10Low(f)))

(***************************************************************************)
(* Python values.  A call either returns a value or raises.                *)
(***************************************************************************)
Return(value) == [kind |-> "return", value |-> value]
Raise(exc, message) == [kind |-> "raise", exc |-> exc, message |-> message]

None == [py |-> "None"]

\* dict.get(key, default)
Get(item, key, default) == IF key \in DOMAIN item THEN item[key] ELSE default

\* a faulty truth test: None passes it
AlwaysTruthy(value) == TRUE

\* bool(value) of a dict with at least one key, or of None
Truthy(value) == value # None

(***************************************************************************)
(* Values of the energy fields as json.loads delivers them: an int, a      *)
(* float written as a decimal literal, NaN, Infinity, a string (a sequence *)
(* of characters) or null.                                                 *)
(***************************************************************************)
JInt(n) == [t |-> "int", n |-> n]
JReal(neg, c, x) == [t |-> "real", neg |-> neg, c |-> c, x |-> x]
JNaN == [t |-> "NaN"]
JInfinity == [t |-> "Infinity"]
JStr(s) == [t |-> "str", s |-> s]
JNull == [t |-> "null"]
\* a float that json.loads has read already
JFloat(f) == [t |-> "float", f |-> f]

DigitChars == <<"0", "1", "2", "3", "4", "5", "6", "7", "8", "9">>
IsDigit(ch) == \E d \in 1..10 : DigitChars[d] = ch
DigitOf(ch) == (CHOOSE d \in 1..10 : DigitChars[d] = ch) - 1

RECURSIVE DigitsValue(_)
DigitsValue(s) ==
  IF s = <<>> THEN 0
  ELSE 10 * DigitsValue(SubSeq(s, 1, Len(s) - 1)) + DigitOf(s[Len(s)])

\* what a value reads as: a decimal literal (-1)^neg * c * 10^x, or a
\* float that no literal stands for
Literal(neg, c, x) == [neg |-> neg, c |-> c, x |-> x]

\* a string: [sign] digits [. digits], nan or inf; anything else raises
\* ValueError (exponents and blanks are not among the inputs)
StrBody(s, neg, body, dots, digs) ==
  IF body = <<"n", "a", "n">> THEN Return(FNaN)
  ELSE IF body = <<"i", "n", "f">> THEN Return(FInf(neg))
  ELSE IF /\ Cardinality(dots) <= 1
          /\ digs # <<>>
          /\ Len(digs) + Cardinality(dots) = Len(body)
  THEN Return(Literal(neg, DigitsValue(digs),
                      IF dots = {} THEN 0
                      ELSE (CHOOSE j \in dots : TRUE) - Len(body)))
  ELSE Raise("ValueError", <<"could not convert string to float", s>>)

StrSigned(s, body) ==
  StrBody(s, s # <<>> /\ s[1] = "-", body,
          {j \in 1..Len(body) : body[j] = "."}, SelectSeq(body, IsDigit))

StrReading(s) ==
  StrSigned(s, IF s # <<>> /\ s[1] \in {"-", "+"} THEN Tail(s) ELSE s)

Reading(v) ==
  CASE v.t = "int" -> Return(Literal(v.n < 0, IF v.n < 0 THEN -v.n ELSE v.n, 0))
    [] v.t = "real" -> Return(Literal(v.neg, v.c, v.x))
    [] v.t = "float" -> Return(v.f)
    [] v.t = "NaN" -> Return(FNaN)
    [] v.t = "Infinity" -> Return(FInf(FALSE))
    [] v.t = "str" -> StrReading(v.s)
    [] v.t = "null" -> Raise("TypeError", <<"float() argument", v>>)

FloatOfReading(rd) ==
  IF rd.kind = "return" /\ "c" \in DOMAIN rd.value
  THEN Return(ParseDec(rd.value.neg, FromInt(rd.value.c), rd.value.x))
  ELSE rd

\* float(v)
float(v) == FloatOfReading(Reading(v))

(***************************************************************************)
(* The raw records the model feeds to the validators.                      *)
(***************************************************************************)
SiteIds == {"SITE_001", "SITE_002"}
Timestamps == {"2024-01-15T10:30:00Z"}

EnergyValues ==
  {JInt(-1001), JInt(-1000), JInt(-5), JInt(0), JInt(10000), JInt(10001),
   JReal(FALSE, 1, -1), JReal(FALSE, 3, -1), JNaN, JInfinity,
   JStr(<<"-", "2", ".", "5">>), JStr(<<"a", "b", "c">>), JNull}

required_fields ==
  <<"site_id", "timestamp", "energy_generated_kwh", "energy_consumed_kwh">>

FullRecords ==
  [site_id : SiteIds, timestamp : Timestamps,
   energy_generated_kwh : EnergyValues, energy_consumed_kwh : EnergyValues]

\* the dict with only the keys in keys
Restrict(record, keys) == [key \in keys |-> record[key]]

\* every dict that has some of the four fields
RawRecords ==
  {Restrict(record, keys) :
     record \in FullRecords, keys \in SUBSET {required_fields[j] : j \in 1..4}}

(***************************************************************************)
(* float() and Decimal(str()) of the values that occur, computed once.     *)
(***************************************************************************)
FloatTab == [v \in EnergyValues |-> float(v)]

\* float(v), looked up for the values above
float_of(v) == IF v \in DOMAIN FloatTab THEN FloatTab[v] ELSE float(v)

Returned(results) == {res.value : res \in {u \in results : u.kind = "return"}}

\* the floats of F and their differences
WithDifferences(F) == F \cup {FloatSub(g, c) : g \in F, c \in F}

Floats == WithDifferences(Returned({FloatTab[v] : v \in EnergyValues}))

DecimalTab == [f \in Floats |-> DecimalOfStr(f)]

\* Decimal(str(f)), looked up for the floats above
Decimal_str(f) == IF f \in DOMAIN DecimalTab THEN DecimalTab[f] ELSE DecimalOfStr(f)

(***************************************************************************)
(* lambda_processor.process_energy_record                                  *)
(***************************************************************************)
\* a faulty detection: consumption is not looked at
detect_generation_only(energy_generated, energy_consumed) ==
  [anomaly |-> FloatLt(energy_generated, FZero),
   anomaly_reasons |->
     IF FloatLt(energy_generated, FZero)
     THEN <<"negative_generation">> ELSE <<>>]

\* a faulty record: processed_at is left out
record_without_processed_at(site_id, timestamp, energy_generated, energy_consumed, net_energy, found, now) ==
  [site_id |-> site_id,
   timestamp |-> timestamp,
   energy_generated_kwh |-> Decimal_str(energy_generated),
   energy_consumed_kwh |-> Decimal_str(energy_consumed),
   net_energy_kwh |-> Decimal_str(net_energy),
   anomaly |-> found.anomaly,
   anomaly_reasons |-> found.anomaly_reasons]

lp_detect(energy_generated, energy_consumed) ==
  [anomaly |-> FloatLt(energy_generated, FZero)
                  \/ FloatLt(energy_consumed, FZero),
   anomaly_reasons |->
     (IF FloatLt(energy_generated, FZero)
      THEN <<"negative_generation">> ELSE <<>>)
     \o (IF FloatLt(energy_consumed, FZero)
         THEN <<"negative_consumption">> ELSE <<>>)]

lp_processed_record(site_id, timestamp, energy_generated, energy_consumed, net_energy, found, now) ==
  [site_id |-> site_id,
   timestamp |-> timestamp,
   energy_generated_kwh |-> Decimal_str(energy_generated),
   energy_consumed_kwh |-> Decimal_str(energy_consumed),
   net_energy_kwh |-> Decimal_str(net_energy),
   anomaly |-> found.anomaly,
   anomaly_reasons |-> found.anomaly_reasons,
   processed_at |-> now]

\* the body once both float() calls have answered
lp_converted(record, energy_generated, energy_consumed, now) ==
  IF energy_generated.kind = "raise" \/ energy_consumed.kind = "raise"
  THEN None
  ELSE lp_processed_record(record.site_id, record.timestamp,
         energy_generated.value, energy_consumed.value,
         FloatSub(energy_generated.value, energy_consumed.value),
         lp_detect(energy_generated.value, energy_consumed.value), now)

\* a missing key (KeyError) or a failing float() ends in the except
\* clause, which returns None
lp_process_energy_record(record, now) ==
  IF ~({"site_id", "timestamp", "energy_generated_kwh",
         "energy_consumed_kwh"} \subseteq DOMAIN record)
  THEN None
  ELSE lp_converted(record, float_of(record.energy_generated_kwh),
                    float_of(record.energy_consumed_kwh), now)

(***************************************************************************)
(* anomaly_alerting.process_energy_record                                  *)
(***************************************************************************)
aa_detect(energy_generated, energy_consumed) ==
  [anomaly |-> FloatLt(energy_generated, FZero)
                  \/ FloatLt(energy_consumed, FZero),
   anomaly_reasons |->
     (IF FloatLt(energy_generated, FZero)
      THEN <<"negative_generation">> ELSE <<>>)
     \o (IF FloatLt(energy_consumed, FZero)
         THEN <<"negative_consumption">> ELSE <<>>)]

aa_processed_record(site_id, timestamp, energy_generated, energy_consumed, net_energy, found, now) ==
  [site_id |-> site_id,
   timestamp |-> timestamp,
   energy_generated_kwh |-> Decimal_str(energy_generated),
   energy_consumed_kwh |-> Decimal_str(energy_consumed),
   net_energy_kwh |-> Decimal_str(net_energy),
   anomaly |-> found.anomaly,
   anomaly_reasons |-> found.anomaly_reasons,
   processed_at |-> now]

aa_converted(record, energy_generated, energy_consumed, now) ==
  IF energy_generated.kind = "raise" \/ energy_consumed.kind = "raise"
  THEN None
  ELSE aa_processed_record(record.site_id, record.timestamp,
         energy_generated.value, energy_consumed.value,
         FloatSub(energy_generated.value, energy_consumed.value),
         aa_detect(energy_generated.value, energy_consumed.value), now)

aa_process_energy_record(record, now) ==
  IF ~({"site_id", "timestamp", "energy_generated_kwh",
         "energy_consumed_kwh"} \subseteq DOMAIN record)
  THEN None
  ELSE aa_converted(record, float_of(record.energy_generated_kwh),
                    float_of(record.energy_consumed_kwh), now)

(***************************************************************************)
(* error_handling.process_energy_record_with_validation                    *)
(***************************************************************************)
RangeMin == -1000
RangeMax == 10000

\* a faulty scan: the last required field that record lacks
RECURSIVE LastMissing(_, _)
LastMissing(record, j) ==
  IF j > Len(required_fields) THEN <<>>
  ELSE IF LastMissing(record, j + 1) # <<>> THEN LastMissing(record, j + 1)
  ELSE IF required_fields[j] \notin DOMAIN record THEN <<required_fields[j]>>
  ELSE <<>>

\* the first required field, from position j on, that record lacks
RECURSIVE MissingFrom(_, _)
MissingFrom(record, j) ==
  IF j > Len(required_fields) THEN <<>>
  ELSE IF required_fields[j] \notin DOMAIN record THEN <<required_fields[j]>>
  ELSE MissingFrom(record, j + 1)

\* energy < -1000 or energy > 10000
OutOfRange(energy, low, high) == FloatLt(energy, low) \/ FloatGt(energy, high)

\* a faulty detection: consumption is tested first
detect_consumption_first(energy_generated, energy_consumed) ==
  [anomaly |-> FloatLt(energy_generated, FZero)
                  \/ FloatLt(energy_consumed, FZero),
   anomaly_reasons |->
     (IF FloatLt(energy_consumed, FZero)
      THEN <<"negative_consumption">> ELSE <<>>)
     \o (IF FloatLt(energy_generated, FZero)
         THEN <<"negative_generation">> ELSE <<>>)]

eh_detect(energy_generated, energy_consumed) ==
  [anomaly |-> FloatLt(energy_generated, FZero)
                  \/ FloatLt(energy_consumed, FZero),
   anomaly_reasons |->
     (IF FloatLt(energy_generated, FZero)
      THEN <<"negative_generation">> ELSE <<>>)
     \o (IF FloatLt(energy_consumed, FZero)
         THEN <<"negative_consumption">> ELSE <<>>)]

eh_processed_record(site_id, timestamp, energy_generated, energy_consumed, net_energy, found, now) ==
  [site_id |-> site_id,
   timestamp |-> timestamp,
   energy_generated_kwh |-> Decimal_str(energy_generated),
   energy_consumed_kwh |-> Decimal_str(energy_consumed),
   net_energy_kwh |-> Decimal_str(net_energy),
   anomaly |-> found.anomaly,
   anomaly_reasons |-> found.anomaly_reasons,
   processed_at |-> now]

\* every exception of the body is re-raised as a ValueError that carries
\* the text of the first one
ValidationFailed(cause) ==
  Raise("ValueError", <<"Record validation failed", cause>>)

\* the body once the four fields are known to be there and both float()
\* calls have answered; low and high are the floats -1000 and 10000
eh_converted(record, energy_generated, energy_consumed, low, high, now) ==
  IF energy_generated.kind = "raise"
  THEN ValidationFailed(energy_generated.message)
  ELSE IF energy_consumed.kind = "raise"
  THEN ValidationFailed(energy_consumed.message)
  ELSE IF OutOfRange(energy_generated.value, low, high)
  THEN ValidationFailed(<<"Energy generated out of valid range",
                          energy_generated.value>>)
  ELSE IF OutOfRange(energy_consumed.value, low, high)
  THEN ValidationFailed(<<"Energy consumed out of valid range",
                          energy_consumed.value>>)
  ELSE Return(eh_processed_record(record.site_id, record.timestamp,
                energy_generated.value, energy_consumed.value,
                FloatSub(energy_generated.value, energy_consumed.value),
                eh_detect(energy_generated.value, energy_consumed.value),
                now))

eh_checked(record, missing, now) ==
  IF missing # <<>>
  THEN ValidationFailed(<<"Missing required field", missing[1]>>)
  ELSE eh_converted(record, float_of(record.energy_generated_kwh),
                    float_of(record.energy_consumed_kwh),
                    FloatOfInt(RangeMin), FloatOfInt(RangeMax), now)

process_energy_record_with_validation(record, now) ==
  eh_checked(record, MissingFrom(record, 1), now)

(***************************************************************************)
(* PipelineErrorHandler                                                    *)
(***************************************************************************)
retry_config ==
  [NETWORK |-> [max_retries |-> 3, backoff |-> <<2, 1>>],
   AWS_SERVICE |-> [max_retries |-> 5, backoff |-> <<3, 2>>],
   STORAGE |-> [max_retries |-> 3, backoff |-> <<2, 1>>],
   API |-> [max_retries |-> 2, backoff |-> <<1, 1>>]]

\* a faulty lookup: every error type gets the NETWORK policy
NetworkPolicy(error_type) == retry_config.NETWORK

\* self.retry_config.get(error_type, {"max_retries": 1, "backoff": 1})
RetryPolicy(error_type) ==
  IF error_type \in DOMAIN retry_config THEN retry_config[error_type]
  ELSE [max_retries |-> 1, backoff |-> <<1, 1>>]

NewErrorHandler ==
  [error_counts |-> [LOW |-> 0, MEDIUM |-> 0, HIGH |-> 0, CRITICAL |-> 0],
   logged |-> <<>>]

Call(op, i, ok) == [op |-> op, i |-> i, ok |-> ok]

\* error_data, the ErrorRecord that log_error builds and returns
ErrorRecord(severity, error_type, component) ==
  [severity |-> severity, error_type |-> error_type, component |-> component]

\* a faulty log_error: every error is counted as MEDIUM
log_error_counted_medium(st, severity, error_type, component, i, sns_up) ==
  [h |-> [error_counts |-> [st.h.error_counts EXCEPT !.MEDIUM = @ + 1],
          logged |-> Append(st.h.logged,
                            ErrorRecord(severity, error_type, component))],
   t |-> IF severity \in {"HIGH", "CRITICAL"}
         THEN Append(st.t, Call("send_error_alert", i, sns_up))
         ELSE st.t]

\* a faulty log_error: the alert goes out for CRITICAL only
log_error_critical_only(st, severity, error_type, component, i, sns_up) ==
  [h |-> [error_counts |-> [st.h.error_counts EXCEPT ![severity] = @ + 1],
          logged |-> Append(st.h.logged,
                            ErrorRecord(severity, error_type, component))],
   t |-> IF severity = "CRITICAL"
         THEN Append(st.t, Call("send_error_alert", i, sns_up))
         ELSE st.t]

\* log_error on the pair st = [h |-> the handler object, t |-> the calls made]:
\* one ErrorRecord, the counter of its severity, and for HIGH and CRITICAL
\* one alert dispatch (sns_up: whether the transport delivers it)
log_error(st, severity, error_type, component, i, sns_up) ==
  [h |-> [error_counts |-> [st.h.error_counts EXCEPT ![severity] = @ + 1],
          logged |-> Append(st.h.logged,
                            ErrorRecord(severity, error_type, component))],
   t |-> IF severity \in {"HIGH", "CRITICAL"}
         THEN Append(st.t, Call("send_error_alert", i, sns_up))
         ELSE st.t]

\* a faulty delay: backoff_factor * attempt
SleepLinear(i, backoff, attempt) ==
  [op |-> "sleep", i |-> i, ok |-> TRUE,
   wait |-> <<backoff[1] * attempt, backoff[2]>>]

\* time.sleep(backoff_factor ** attempt) after the failed attempt; the
\* backoff is the fraction backoff[1] / backoff[2]
Sleep(i, backoff, attempt) ==
  [op |-> "sleep", i |-> i, ok |-> TRUE,
   wait |-> <<backoff[1]^attempt, backoff[2]^attempt>>]

\* a faulty retry: no sleep between the attempts
not_slept(st, i, backoff, attempt) == st

slept(st, i, backoff, attempt) ==
  [h |-> st.h, t |-> Append(st.t, Sleep(i, backoff, attempt))]

\* what the call number attempt of operation op returns, or raises
ResultOf(op, attempt) == [of |-> op, attempt |-> attempt]

\* the attempts of retry_operation from number attempt on, for an
\* operation op whose first fails calls raise
RECURSIVE retry_attempts(_, _, _, _, _, _, _, _)
retry_attempts(st, attempt, op, fails, error_type, component, i, sns_up) ==
  LET max_retries == RetryPolicy(error_type).max_retries
      called == [h |-> st.h, t |-> Append(st.t, Call(op, i, attempt >= fails))]
  IN  IF attempt >= fails
      THEN [kind |-> "return", value |-> ResultOf(op, attempt), st |-> called]
      ELSE IF attempt = max_retries
      THEN [kind |-> "raise", exc |-> ResultOf(op, attempt),
            st |-> log_error(called, "HIGH", error_type, component, i, sns_up)]
      ELSE retry_attempts(
             slept(log_error(called, "MEDIUM", error_type, component, i,
                             sns_up),
                   i, RetryPolicy(error_type).backoff, attempt),
             attempt + 1, op, fails, error_type, component, i, sns_up)

\* a faulty retry: the operation is called once more after it has succeeded
retry_operation_again(st, op, fails, error_type, component, i, sns_up) ==
  LET result == retry_attempts(st, 0, op, fails, error_type, component, i,
                               sns_up)
  IN  IF result.kind = "return"
      THEN [result EXCEPT !.st.t = Append(@, Call(op, i, TRUE))]
      ELSE result

retry_operation(st, op, fails, error_type, component, i, sns_up) ==
  retry_attempts(st, 0, op, fails, error_type, component, i, sns_up)

(***************************************************************************)
(* The uploaded files and the invocation.                                  *)
(***************************************************************************)
MaxBatch == 3

NormalRecord ==
  [site_id |-> "SITE_001", timestamp |-> "2024-01-15T10:30:00Z",
   energy_generated_kwh |-> JReal(FALSE, 3, -1),
   energy_consumed_kwh |-> JReal(FALSE, 1, -1)]

AnomalousRecord ==
  [NormalRecord EXCEPT !.site_id = "SITE_002",
                       !.energy_generated_kwh = JInt(-5)]

TooLargeRecord == [NormalRecord EXCEPT !.energy_generated_kwh = JInt(10001)]

IncompleteRecord ==
  Restrict(NormalRecord, {"site_id", "timestamp", "energy_generated_kwh"})

BatchRecords ==
  {NormalRecord, AnomalousRecord, TooLargeRecord, IncompleteRecord}

Batches == UNION {[1..n -> BatchRecords] : n \in 0..MaxBatch}

NotJson == [json |-> FALSE, body |-> <<>>]
Files == {[json |-> TRUE, body |-> body] : body \in Batches} \cup {NotJson}

LP == "lambda_handler"
AA == "enhanced_lambda_handler"
EH == "enhanced_lambda_handler_with_error_handling"
Handlers == {LP, AA, EH}

NoResponse == [statusCode |-> 0]
NoUploader == [running |-> FALSE, upload_count |-> 0, interval_seconds |-> 0]
NotCalled == [kind |-> "none"]

Init ==
  /\ handler \in Handlers
  /\ \/ event = "s3_put" /\ s3_object \in Files
     \/ event = "malformed" /\ s3_object = NotJson
  /\ pc = "start"
  /\ records = <<>>
  /\ index = 1
  /\ processed_count = 0
  /\ anomaly_count = 0
  /\ anomalies_detected = <<>>
  /\ error_count = 0
  /\ error_handler = NewErrorHandler
  /\ table = <<>>
  /\ trace = <<>>
  /\ clock = 0
  /\ response = NoResponse
  /\ validator = "none"
  /\ raw = <<>>
  /\ outcome = NotCalled
  /\ uploader = NoUploader
  /\ remaining = 0

invocation == <<handler, event, s3_object, uploader, remaining>>
direct == <<validator, raw, outcome>>

Failed == [statusCode |-> 500]

(***************************************************************************)
(* lambda_processor.lambda_handler                                         *)
(***************************************************************************)
\* the event is read, the file downloaded and parsed; any failure is
\* answered with 500
lp_open ==
  /\ handler = LP /\ pc = "start"
  /\ \E got \in BOOLEAN :
       IF event = "malformed"
       THEN /\ response' = Failed /\ pc' = "returned"
            /\ UNCHANGED <<records, trace>>
       ELSE /\ trace' = Append(trace, Call("get_object", 0, got))
            /\ IF got /\ s3_object.json
               THEN /\ records' = s3_object.body /\ pc' = "loop"
                    /\ UNCHANGED response
               ELSE /\ response' = Failed /\ pc' = "returned"
                    /\ UNCHANGED records
  /\ UNCHANGED <<invocation, direct, index, processed_count, anomaly_count,
                 anomalies_detected, error_count, error_handler, table, clock>>

\* a faulty store_in_dynamodb: the exception of put_item is not raised
\* again, and the loop goes on with the next record
lp_store_swallowing(processed_record, calls, stored) ==
  /\ trace' = Append(calls, Call("put_item", index, stored))
  /\ index' = index + 1
  /\ table' = IF stored THEN Append(table, processed_record) ELSE table
  /\ processed_count' = processed_count + 1
  /\ anomaly_count' = IF Get(processed_record, "anomaly", FALSE)
                      THEN anomaly_count + 1 ELSE anomaly_count
  /\ UNCHANGED <<pc, response>>

\* store_in_dynamodb and what follows it; a put_item that raises ends the
\* handler with 500
lp_store(processed_record, calls, stored) ==
  /\ trace' = Append(calls, Call("put_item", index, stored))
  /\ IF stored
     THEN /\ table' = Append(table, processed_record)
          /\ processed_count' = processed_count + 1
          /\ anomaly_count' = IF Get(processed_record, "anomaly", FALSE)
                              THEN anomaly_count + 1 ELSE anomaly_count
          /\ index' = index + 1
          /\ UNCHANGED <<pc, response>>
     ELSE /\ response' = Failed /\ pc' = "returned"
          /\ UNCHANGED <<table, processed_count, anomaly_count, index>>

lp_turn(processed_record, calls) ==
  IF Truthy(processed_record)
  THEN \E stored \in BOOLEAN : lp_store(processed_record, calls, stored)
  ELSE /\ trace' = calls
       /\ index' = index + 1
       /\ UNCHANGED <<table, processed_count, anomaly_count, pc, response>>

lp_validated(processed_record) ==
  lp_turn(processed_record,
          Append(trace, Call("validate", index, processed_record # None)))

\* one turn of the loop
lp_record ==
  /\ handler = LP /\ pc = "loop" /\ index <= Len(records)
  /\ clock' = clock + 1
  /\ lp_validated(lp_process_energy_record(records[index], clock))
  /\ UNCHANGED <<invocation, direct, records, anomalies_detected, error_count,
                 error_handler>>

lp_return ==
  /\ handler = LP /\ pc = "loop" /\ index > Len(records)
  /\ response' = [statusCode |-> 200,
                  body |-> [message |-> <<"Successfully processed",
                                          processed_count, "records">>,
                            anomalies_found |-> anomaly_count]]
  /\ pc' = "returned"
  /\ UNCHANGED <<invocation, direct, records, index, processed_count,
                 anomaly_count, anomalies_detected, error_count,
                 error_handler, table, trace, clock>>

(***************************************************************************)
(* anomaly_alerting.AnomalyAlertingSystem.  A call of send_anomaly_alert   *)
(* or of send_daily_summary_alert is one entry of the trace: what the      *)
(* function has put in its message and what it has handed to its caller.   *)
(***************************************************************************)
\* item in list
Contains(list, item) == \E j \in 1..Len(list) : list[j] = item

\* a faulty labelling: consumption is looked at first
anomaly_type_consumption_first(anomaly_reasons) ==
  IF Contains(anomaly_reasons, "negative_consumption")
  THEN "Negative Energy Consumption"
  ELSE IF Contains(anomaly_reasons, "negative_generation")
  THEN "Negative Energy Generation"
  ELSE "Unknown"

anomaly_type(anomaly_reasons) ==
  IF Contains(anomaly_reasons, "negative_generation")
  THEN "Negative Energy Generation"
  ELSE IF Contains(anomaly_reasons, "negative_consumption")
  THEN "Negative Energy Consumption"
  ELSE "Unknown"

\* the MessageId in the answer to the i-th publish
MessageId(i) == [MessageId |-> i]

\* sns_client.publish: it raises when the transport is down
publish(i, sns_up) ==
  IF sns_up THEN Return(MessageId(i))
  ELSE Raise("ClientError", <<"publish">>)

\* float(value) returns: value is a Decimal of a processed record, or a
\* value as json.loads delivers it
Convertible(value) ==
  IF "t" \in DOMAIN value THEN float(value).kind = "return" ELSE TRUE

\* a faulty except clause: the exception goes on to the caller
Reraised(result) == result

\* except Exception: the error is printed and None returned
except_None(result) ==
  IF result.kind = "raise" THEN Return(None) ELSE result

AlertCall(op, i, message, result) ==
  [op |-> op, i |-> i, message |-> message, result |-> result,
   ok |-> result.kind = "return" /\ result.value # None]

anomaly_message(anomaly_record, anomaly_reasons) ==
  [site_id |-> Get(anomaly_record, "site_id", "Unknown"),
   timestamp |-> Get(anomaly_record, "timestamp", "Unknown"),
   anomaly_type |-> anomaly_type(anomaly_reasons),
   details |-> IF anomaly_reasons # <<>> THEN anomaly_reasons
               ELSE <<"Anomaly detected">>]

\* the try block of send_anomaly_alert: the message takes the float of
\* both energy values, then it is published
anomaly_published(anomaly_record, i, sns_up) ==
  IF /\ Convertible(Get(anomaly_record, "energy_generated_kwh", JInt(0)))
     /\ Convertible(Get(anomaly_record, "energy_consumed_kwh", JInt(0)))
  THEN publish(i, sns_up)
  ELSE Raise("ValueError", <<"could not convert to float">>)

send_anomaly_alert(anomaly_record, i, sns_up) ==
  AlertCall("send_anomaly_alert", i,
            anomaly_message(anomaly_record,
                            Get(anomaly_record, "anomaly_reasons", <<>>)),
            except_None(anomaly_published(anomaly_record, i, sns_up)))

\* anomalies / total * 100 if total > 0 else 0
anomaly_rate(anomalies, total) ==
  IF total > 0 THEN FloatTimes(TrueDiv(anomalies, total), 100) ELSE FZero

\* a faulty labelling: the boundaries 1 and 5 fall to the lower band
system_health_lower_band(rate) ==
  IF ~FloatGt(rate, FloatOfInt(1)) THEN "Excellent"
  ELSE IF ~FloatGt(rate, FloatOfInt(5)) THEN "Attention Needed"
  ELSE "Critical"

system_health(rate) ==
  IF FloatLt(rate, FloatOfInt(1)) THEN "Excellent"
  ELSE IF FloatLt(rate, FloatOfInt(5)) THEN "Attention Needed"
  ELSE "Critical"

\* the line of one site
site_line(site_data) ==
  [record_count |-> Get(site_data, "record_count", 0),
   anomaly_count |-> Get(site_data, "anomaly_count", 0),
   site_rate |-> anomaly_rate(Get(site_data, "anomaly_count", 0),
                              Get(site_data, "record_count", 0))]

\* format(value, ".1f") returns: value is a number
Formatted(value) == value.t \in {"int", "real", "NaN", "Infinity"}

site_lines(site_summaries) ==
  [site_id \in DOMAIN site_summaries |-> site_line(site_summaries[site_id])]

SitesFormatted(site_summaries) ==
  \A site_id \in DOMAIN site_summaries :
    /\ Formatted(Get(site_summaries[site_id], "avg_generation_kwh", JInt(0)))
    /\ Formatted(Get(site_summaries[site_id], "avg_net_energy_kwh", JInt(0)))

summary_message(summary_data, total_anomalies, total_records, rate) ==
  [total_records |-> total_records,
   total_anomalies |-> total_anomalies,
   anomaly_rate |-> rate,
   health |-> system_health(rate),
   sites |-> IF "site_summaries" \in DOMAIN summary_data
             THEN site_lines(summary_data.site_summaries) ELSE None]

\* the try block of send_daily_summary_alert, from the site lines on
summary_published(summary_data, i, sns_up) ==
  IF "site_summaries" \in DOMAIN summary_data
     => SitesFormatted(summary_data.site_summaries)
  THEN publish(i, sns_up)
  ELSE Raise("ValueError", <<"Unknown format code 'f'">>)

summary_totals(summary_data, total_anomalies, total_records) ==
  summary_message(summary_data, total_anomalies, total_records,
                  anomaly_rate(total_anomalies, total_records))

send_daily_summary_alert(summary_data, i, sns_up) ==
  AlertCall("send_daily_summary_alert", i,
            summary_totals(summary_data,
                           Get(summary_data, "total_anomalies", 0),
                           Get(summary_data, "total_records", 0)),
            except_None(summary_published(summary_data, i, sns_up)))

(***************************************************************************)
(* anomaly_alerting.enhanced_lambda_handler                                *)
(***************************************************************************)
\* a faulty except clause in enhanced_lambda_handler: the publish of the
\* error alert is not guarded, and its failure leaves the handler
aa_failed_unguarded(calls, sns_up) ==
  /\ trace' = Append(calls, Call("publish_error", 0, sns_up))
  /\ response' = IF sns_up THEN Failed ELSE NoResponse
  /\ pc' = IF sns_up THEN "returned" ELSE "raised"

\* the except clause: one error alert is published, its failure ignored
aa_failed(calls, sns_up) ==
  /\ trace' = Append(calls, Call("publish_error", 0, sns_up))
  /\ response' = Failed
  /\ pc' = "returned"

aa_downloaded(calls, got, sns_up) ==
  IF got /\ s3_object.json
  THEN /\ records' = s3_object.body /\ pc' = "loop"
       /\ trace' = calls
       /\ UNCHANGED response
  ELSE aa_failed(calls, sns_up) /\ UNCHANGED records

aa_open ==
  /\ handler = AA /\ pc = "start"
  /\ \E got \in BOOLEAN, sns_up \in BOOLEAN :
       IF event = "malformed"
       THEN aa_failed(trace, sns_up) /\ UNCHANGED records
       ELSE aa_downloaded(Append(trace, Call("get_object", 0, got)), got,
                          sns_up)
  /\ UNCHANGED <<invocation, direct, index, processed_count, anomaly_count,
                 anomalies_detected, error_count, error_handler, table, clock>>

\* send_anomaly_alert has been called for an anomalous record (alerted
\* holds the call): the loop goes on, unless the call has raised
aa_alerted(calls, alerted, sns_up) ==
  IF alerted.result.kind = "raise"
  THEN aa_failed(Append(calls, alerted), sns_up) /\ UNCHANGED index
  ELSE /\ trace' = Append(calls, alerted)
       /\ index' = index + 1
       /\ UNCHANGED <<pc, response>>

\* put_item has been called (calls holds it) and what follows it: the
\* counters and, for an anomalous record, send_anomaly_alert
aa_store(processed_record, calls, stored, sns_up) ==
  IF stored
  THEN /\ table' = Append(table, processed_record)
       /\ processed_count' = processed_count + 1
       /\ IF Get(processed_record, "anomaly", FALSE)
          THEN /\ anomaly_count' = anomaly_count + 1
               /\ anomalies_detected' =
                    Append(anomalies_detected, processed_record)
               /\ aa_alerted(calls,
                             send_anomaly_alert(processed_record, index,
                                                sns_up),
                             sns_up)
          ELSE /\ trace' = calls
               /\ index' = index + 1
               /\ UNCHANGED <<anomaly_count, anomalies_detected, pc,
                              response>>
  ELSE /\ aa_failed(calls, sns_up)
       /\ UNCHANGED <<table, processed_count, anomaly_count,
                      anomalies_detected, index>>

aa_turn(processed_record, calls) ==
  IF Truthy(processed_record)
  THEN \E stored \in BOOLEAN, sns_up \in BOOLEAN :
         aa_store(processed_record,
                  Append(calls, Call("put_item", index, stored)), stored,
                  sns_up)
  ELSE /\ trace' = calls
       /\ index' = index + 1
       /\ UNCHANGED <<table, processed_count, anomaly_count,
                      anomalies_detected, pc, response>>

aa_validated(processed_record) ==
  aa_turn(processed_record,
          Append(trace, Call("validate", index, processed_record # None)))

aa_record ==
  /\ handler = AA /\ pc = "loop" /\ index <= Len(records)
  /\ clock' = clock + 1
  /\ aa_validated(aa_process_energy_record(records[index], clock))
  /\ UNCHANGED <<invocation, direct, records, error_count, error_handler>>

aa_return ==
  /\ handler = AA /\ pc = "loop" /\ index > Len(records)
  /\ response' = [statusCode |-> 200,
                  body |-> [message |-> <<"Successfully processed",
                                          processed_count, "records">>,
                            anomalies_found |-> anomaly_count,
                            alerts_sent |-> Len(anomalies_detected)]]
  /\ pc' = "returned"
  /\ UNCHANGED <<invocation, direct, records, index, processed_count,
                 anomaly_count, anomalies_detected, error_count,
                 error_handler, table, trace, clock>>

(***************************************************************************)
(* error_handling.enhanced_lambda_handler_with_error_handling              *)
(***************************************************************************)
eh_logged(st) ==
  /\ error_handler' = st.h
  /\ trace' = st.t

\* the outer except clause: a CRITICAL ErrorRecord, then 500
eh_failed(st, sns_up) ==
  /\ eh_logged(log_error(st, "CRITICAL", "PROCESSING", "lambda_handler", 0,
                         sns_up))
  /\ response' = Failed
  /\ pc' = "returned"

\* after the download: the file is parsed
eh_downloaded(download, sns_up) ==
  IF download.kind = "raise"
  THEN eh_failed(download.st, sns_up) /\ UNCHANGED records
  ELSE IF ~s3_object.json
  THEN /\ eh_failed(log_error(download.st, "HIGH", "DATA_VALIDATION",
                              "json_parsing", 0, sns_up), sns_up)
       /\ UNCHANGED records
  ELSE /\ records' = s3_object.body
       /\ pc' = "loop"
       /\ eh_logged(download.st)
       /\ UNCHANGED response

\* the event is read and the file downloaded under the AWS_SERVICE retry
\* policy (its first fails attempts raise)
eh_open ==
  /\ handler = EH /\ pc = "start"
  /\ \E fails \in 0..(RetryPolicy("AWS_SERVICE").max_retries + 1),
        sns_up \in BOOLEAN :
       IF event = "malformed"
       THEN /\ eh_failed([h |-> error_handler, t |-> trace], sns_up)
            /\ UNCHANGED records
       ELSE eh_downloaded(
              retry_operation([h |-> error_handler, t |-> trace],
                              "get_object", fails, "AWS_SERVICE",
                              "s3_download", 0, sns_up),
              sns_up)
  /\ UNCHANGED <<invocation, direct, index, processed_count, anomaly_count,
                 anomalies_detected, error_count, table, clock>>

\* the except clause of the loop: counted, logged at MEDIUM, and the loop
\* goes on
eh_caught(st, sns_up) ==
  /\ error_count' = error_count + 1
  /\ eh_logged(log_error(st, "MEDIUM", "PROCESSING", "record_processing",
                         index, sns_up))
  /\ UNCHANGED <<table, processed_count>>

\* store is how the write under the STORAGE retry policy ended
eh_stored(processed_record, store, sns_up) ==
  IF store.kind = "return"
  THEN /\ table' = Append(table, processed_record)
       /\ processed_count' = processed_count + 1
       /\ eh_logged(store.st)
       /\ UNCHANGED error_count
  ELSE eh_caught(store.st, sns_up)

eh_turn(result, st) ==
  \E fails \in 0..(RetryPolicy("STORAGE").max_retries + 1),
     sns_up \in BOOLEAN :
    IF result.kind = "raise" THEN eh_caught(st, sns_up)
    ELSE IF ~Truthy(result.value)
    THEN eh_logged(st) /\ UNCHANGED <<table, processed_count, error_count>>
    ELSE eh_stored(result.value,
                   retry_operation(st, "put_item", fails, "STORAGE",
                                   "dynamodb_storage", index, sns_up),
                   sns_up)

eh_validated(result) ==
  eh_turn(result,
          [h |-> error_handler,
           t |-> Append(trace,
                        Call("validate", index, result.kind = "return"))])

\* one turn of the loop: the record is validated and written; whatever is
\* raised inside the turn is caught there
eh_record ==
  /\ handler = EH /\ pc = "loop" /\ index <= Len(records)
  /\ clock' = clock + 1
  /\ index' = index + 1
  /\ eh_validated(process_energy_record_with_validation(records[index],
                                                        clock))
  /\ UNCHANGED <<invocation, direct, records, anomaly_count,
                 anomalies_detected, pc, response>>

eh_return ==
  /\ handler = EH /\ pc = "loop" /\ index > Len(records)
  /\ response' = [statusCode |-> 200,
                  body |-> [message |-> <<"Processing completed">>,
                            processed_count |-> processed_count,
                            error_count |-> error_count]]
  /\ pc' = "returned"
  /\ UNCHANGED <<invocation, direct, records, index, processed_count,
                 anomaly_count, anomalies_detected, error_count,
                 error_handler, table, trace, clock>>

Next ==
  \/ lp_open \/ lp_record \/ lp_return
  \/ aa_open \/ aa_record \/ aa_return
  \/ eh_open \/ eh_record \/ eh_return

Spec == Init /\ [][Next]_vars

(***************************************************************************)
(* The validators applied directly to one raw record.                      *)
(***************************************************************************)
InitV ==
  /\ raw \in RawRecords
  /\ uploader = NoUploader
  /\ remaining = 0
  /\ validator = "none"
  /\ outcome = NotCalled
  /\ handler = "none"
  /\ event = "none"
  /\ s3_object = NotJson
  /\ pc = "idle"
  /\ records = <<>>
  /\ index = 1
  /\ processed_count = 0
  /\ anomaly_count = 0
  /\ anomalies_detected = <<>>
  /\ error_count = 0
  /\ error_handler = NewErrorHandler
  /\ table = <<>>
  /\ trace = <<>>
  /\ clock = 0
  /\ response = NoResponse

batch == <<handler, event, s3_object, pc, records, index, processed_count,
           anomaly_count, anomalies_detected, error_count, error_handler,
           table, trace, response, uploader, remaining>>

call_lp ==
  /\ validator = "none"
  /\ validator' = "lambda_processor"
  /\ outcome' = Return(lp_process_energy_record(raw, clock))
  /\ clock' = clock + 1
  /\ UNCHANGED <<raw, batch>>

call_aa ==
  /\ validator = "none"
  /\ validator' = "anomaly_alerting"
  /\ outcome' = Return(aa_process_energy_record(raw, clock))
  /\ clock' = clock + 1
  /\ UNCHANGED <<raw, batch>>

call_eh ==
  /\ validator = "none"
  /\ validator' = "error_handling"
  /\ outcome' = process_energy_record_with_validation(raw, clock)
  /\ clock' = clock + 1
  /\ UNCHANGED <<raw, batch>>

NextV == call_lp \/ call_aa \/ call_eh

SpecV == InitV /\ [][NextV]_vars

(***************************************************************************)
(* One PipelineErrorHandler on which log_error and retry_operation are     *)
(* called in turn, as test_error_handling_system does.  clock counts the   *)
(* calls and numbers them in the trace; raw holds the arguments of the     *)
(* last call and outcome what it returned or raised.                       *)
(***************************************************************************)
MaxCalls == 2

Severities == {"LOW", "MEDIUM", "HIGH", "CRITICAL"}

ErrorTypes ==
  {"DATA_VALIDATION", "AWS_SERVICE", "NETWORK", "PROCESSING", "AUTHENTICATION",
   "STORAGE", "API"}

\* the write to the log sink that opens log_error: when it raises, the
\* exception is caught and printed
put_log_events(st, i, logs_up) ==
  [h |-> st.h, t |-> Append(st.t, Call("put_log_events", i, logs_up))]

\* log_error with its write to the log sink observed.  The handlers and
\* retry_operation are followed without it: whether it succeeds changes
\* nothing but what is printed.
log_error_observed(st, severity, error_type, component, i, logs_up, sns_up) ==
  log_error(put_log_events(st, i, logs_up), severity, error_type, component,
            i, sns_up)

InitR ==
  /\ validator = "none"
  /\ raw = <<>>
  /\ outcome = NotCalled
  /\ uploader = NoUploader
  /\ remaining = 0
  /\ error_handler = NewErrorHandler
  /\ trace = <<>>
  /\ clock = 0
  /\ handler = "none"
  /\ event = "none"
  /\ s3_object = NotJson
  /\ pc = "idle"
  /\ records = <<>>
  /\ index = 1
  /\ processed_count = 0
  /\ anomaly_count = 0
  /\ anomalies_detected = <<>>
  /\ error_count = 0
  /\ table = <<>>
  /\ response = NoResponse

ingestion == <<handler, event, s3_object, pc, records, index, processed_count,
               anomaly_count, anomalies_detected, error_count, table,
               response, uploader, remaining>>

call_log_error ==
  /\ clock < MaxCalls
  /\ \E severity \in Severities, logs_up \in BOOLEAN, sns_up \in BOOLEAN :
       /\ raw' = [severity |-> severity, logs_up |-> logs_up,
                  sns_up |-> sns_up]
       /\ eh_logged(log_error_observed([h |-> error_handler, t |-> trace],
                                       severity, "DATA_VALIDATION",
                                       "test_module", clock, logs_up, sns_up))
       /\ outcome' = Return(ErrorRecord(severity, "DATA_VALIDATION",
                                        "test_module"))
  /\ validator' = "log_error"
  /\ clock' = clock + 1
  /\ UNCHANGED ingestion

\* retry_operation has ended with result: the handler object and the calls
\* are as it left them, and the caller has its value or its exception
retried(result) ==
  /\ eh_logged(result.st)
  /\ outcome' = IF result.kind = "return" THEN Return(result.value)
                ELSE Raise(result.exc, <<"Simulated network failure">>)

\* an operation whose first fails calls raise, under each error type
call_retry_operation ==
  /\ clock < MaxCalls
  /\ \E error_type \in ErrorTypes, sns_up \in BOOLEAN :
       \E fails \in 0..(RetryPolicy(error_type).max_retries + 1) :
         /\ raw' = [error_type |-> error_type, fails |-> fails,
                    sns_up |-> sns_up]
         /\ retried(retry_operation([h |-> error_handler, t |-> trace],
                                    "failing_operation", fails, error_type,
                                    "test_retry", clock, sns_up))
  /\ validator' = "retry_operation"
  /\ clock' = clock + 1
  /\ UNCHANGED ingestion

NextR == call_log_error \/ call_retry_operation

SpecR == InitR /\ [][NextR]_vars

(***************************************************************************)
(* One AnomalyAlertingSystem.  Either its two functions are called on an   *)
(* anomaly record and on a summary, as test_alerting_system does (handler  *)
(* is "none"), or enhanced_lambda_handler runs on an uploaded file and     *)
(* calls send_anomaly_alert itself.  raw holds the arguments of a direct   *)
(* call and outcome what the caller has got.                               *)
(***************************************************************************)
MaxAlerts == 1

AlertReasons ==
  {<<>>, <<"negative_generation">>, <<"negative_consumption">>,
   <<"negative_generation", "negative_consumption">>,
   <<"negative_consumption", "negative_generation">>,
   <<"sensor_fault">>}

test_anomaly(anomaly_reasons, energy_generated) ==
  [site_id |-> "SITE_001",
   timestamp |-> "2024-01-15T10:30:00Z",
   energy_generated_kwh |-> energy_generated,
   energy_consumed_kwh |-> JReal(FALSE, 452, -1),
   anomaly |-> TRUE,
   anomaly_reasons |-> anomaly_reasons]

\* the anomaly records of the direct calls: with each list of reasons, with
\* an energy value that float() rejects, and with keys missing
AlertRecords ==
  {test_anomaly(anomaly_reasons, energy_generated) :
     anomaly_reasons \in AlertReasons,
     energy_generated \in {JReal(TRUE, 155, -1), JStr(<<"a", "b", "c">>)}}
  \cup {Restrict(test_anomaly(<<"negative_generation">>, JInt(-5)), keys) :
          keys \in {{"site_id", "timestamp"}, {"anomaly_reasons"}}}

TotalRecords == {0, 3, 100, 200, 700}
TotalAnomalies == {0, 1, 3, 5, 7, 35}

SiteSummaries ==
  {[SITE_001 |-> [record_count |-> 100, anomaly_count |-> 1,
                  avg_generation_kwh |-> JReal(FALSE, 455, -1)]],
   [SITE_001 |-> [record_count |-> 0,
                  avg_generation_kwh |-> JStr(<<"n", "/", "a">>)]]}

\* the summaries of the direct calls: the totals alone, with the lines of
\* the sites, and without total_records
SummaryData ==
  {[total_anomalies |-> a, total_records |-> b] :
     a \in TotalAnomalies, b \in TotalRecords}
  \cup {[total_anomalies |-> a, total_records |-> 100, site_summaries |-> ss] :
          a \in TotalAnomalies, ss \in SiteSummaries}
  \cup {[total_anomalies |-> a] : a \in TotalAnomalies}

InitA == InitR \/ (Init /\ handler = AA)

\* the call is in the trace and the caller has what it returned or raised
alert_returned(alerted) ==
  /\ trace' = Append(trace, alerted)
  /\ outcome' = alerted.result

call_send_anomaly_alert ==
  /\ handler = "none" /\ clock < MaxAlerts
  /\ \E anomaly_record \in AlertRecords, sns_up \in BOOLEAN :
       /\ raw' = [anomaly_record |-> anomaly_record, sns_up |-> sns_up]
       /\ alert_returned(send_anomaly_alert(anomaly_record, clock, sns_up))
  /\ validator' = "send_anomaly_alert"
  /\ clock' = clock + 1
  /\ UNCHANGED <<ingestion, error_handler>>

call_send_daily_summary_alert ==
  /\ handler = "none" /\ clock < MaxAlerts
  /\ \E summary_data \in SummaryData, sns_up \in BOOLEAN :
       /\ raw' = [summary_data |-> summary_data, sns_up |-> sns_up]
       /\ alert_returned(send_daily_summary_alert(summary_data, clock,
                                                  sns_up))
  /\ validator' = "send_daily_summary_alert"
  /\ clock' = clock + 1
  /\ UNCHANGED <<ingestion, error_handler>>

NextA ==
  \/ call_send_anomaly_alert \/ call_send_daily_summary_alert
  \/ aa_open \/ aa_record \/ aa_return

SpecA == InitA /\ [][NextA]_vars

(***************************************************************************)
(* continuous_uploader.ContinuousEnergyUploader.run_continuous, one step   *)
(* of the main thread at a time, and the shutdown signal, whose handler    *)
(* runs between any two of these steps.  raw holds the argument            *)
(* max_uploads, pc the position in the loop, trace the batches generated,  *)
(* the uploads and the signal.  A failure (of generate_batch or of         *)
(* put_object) happens at most MaxFailures times; a run without limit is   *)
(* followed up to MaxUploads + 1 uploads.                                  *)
(***************************************************************************)
MaxUploads == 2
MaxFailures == 2

IntervalMinutes == {0, 1}

\* __init__: the interval in seconds, running, no upload yet
NewUploader(interval_minutes) ==
  [running |-> TRUE, upload_count |-> 0,
   interval_seconds |-> interval_minutes * 60]

signal_handler(u) == [u EXCEPT !.running = FALSE]

\* a faulty upload_batch: a failed upload is counted too
upload_batch_counting(u, ok) ==
  [u |-> [u EXCEPT !.upload_count = @ + 1], value |-> ok]

\* upload_batch, put_object succeeding (ok) or raising: counted and True,
\* or caught and False
upload_batch(u, ok) ==
  IF ok THEN [u |-> [u EXCEPT !.upload_count = @ + 1], value |-> TRUE]
  ELSE [u |-> u, value |-> FALSE]

\* max_uploads and self.upload_count >= max_uploads
Reached(max_uploads, upload_count) ==
  /\ max_uploads # None
  /\ max_uploads.n # 0
  /\ upload_count >= max_uploads.n

Failures == Cardinality({j \in 1..Len(trace) : ~trace[j].ok})

InitU ==
  /\ handler = "run_continuous"
  /\ uploader \in {NewUploader(interval_minutes) :
                     interval_minutes \in IntervalMinutes}
  /\ raw \in {[max_uploads |-> max_uploads] :
                max_uploads \in {None} \cup {JInt(n) : n \in 0..MaxUploads}}
  /\ pc = "while"
  /\ remaining = 0
  /\ trace = <<>>
  /\ validator = "none"
  /\ outcome = NotCalled
  /\ event = "none"
  /\ s3_object = NotJson
  /\ records = <<>>
  /\ index = 1
  /\ processed_count = 0
  /\ anomaly_count = 0
  /\ anomalies_detected = <<>>
  /\ error_count = 0
  /\ error_handler = NewErrorHandler
  /\ table = <<>>
  /\ clock = 0
  /\ response = NoResponse

others == <<handler, event, s3_object, records, index, processed_count,
            anomaly_count, anomalies_detected, error_count, error_handler,
            table, clock, response, validator, raw, outcome>>

\* while self.running
u_while ==
  /\ handler = "run_continuous" /\ pc = "while"
  /\ pc' = IF uploader.running THEN "generate" ELSE "stopped"
  /\ UNCHANGED <<others, uploader, remaining, trace>>

\* generate_batch, and upload_batch is called with its records; or an
\* exception, which the except clause of the loop takes
u_generate ==
  /\ handler = "run_continuous" /\ pc = "generate"
  /\ uploader.upload_count <= MaxUploads
  /\ \/ /\ trace' = Append(trace, Call("upload_batch",
                                        uploader.upload_count + 1, TRUE))
        /\ pc' = "put_object"
     \/ /\ Failures < MaxFailures
        /\ trace' = Append(trace, Call("generate_batch",
                                        uploader.upload_count + 1, FALSE))
        /\ pc' = "except"
  /\ UNCHANGED <<others, uploader, remaining>>

uploaded(result) ==
  /\ uploader' = result.u
  /\ trace' = Append(trace, Call("put_object", uploader.upload_count + 1,
                                  result.value))

\* the upload in flight ends
u_put_object ==
  /\ handler = "run_continuous" /\ pc = "put_object"
  /\ \E ok \in BOOLEAN :
       /\ ok \/ Failures < MaxFailures
       /\ uploaded(upload_batch(uploader, ok))
  /\ pc' = "max_uploads"
  /\ UNCHANGED <<others, remaining>>

\* if max_uploads and self.upload_count >= max_uploads: break
u_max_uploads ==
  /\ handler = "run_continuous" /\ pc = "max_uploads"
  /\ pc' = IF Reached(raw.max_uploads, uploader.upload_count)
            THEN "stopped" ELSE "if_running"
  /\ UNCHANGED <<others, uploader, remaining, trace>>

\* if self.running: the wait begins
u_if_running ==
  /\ handler = "run_continuous" /\ pc = "if_running"
  /\ IF uploader.running
     THEN remaining' = uploader.interval_seconds /\ pc' = "for"
     ELSE pc' = "while" /\ UNCHANGED remaining
  /\ UNCHANGED <<others, uploader, trace>>

\* for remaining in range(interval_seconds, 0, -1): if not self.running:
\* break
u_for ==
  /\ handler = "run_continuous" /\ pc = "for"
  /\ pc' = IF remaining = 0 \/ ~uploader.running THEN "while" ELSE "sleep"
  /\ UNCHANGED <<others, uploader, remaining, trace>>

\* time.sleep(1) has ended
u_sleep ==
  /\ handler = "run_continuous" /\ pc = "sleep"
  /\ remaining' = remaining - 1
  /\ pc' = "for"
  /\ UNCHANGED <<others, uploader, trace>>

\* except Exception: time.sleep(10) has ended
u_except ==
  /\ handler = "run_continuous" /\ pc = "except"
  /\ pc' = "while"
  /\ UNCHANGED <<others, uploader, remaining, trace>>

\* SIGINT or SIGTERM is delivered for the first time, between two steps
\* of the main thread or while it sleeps or uploads
signal ==
  /\ handler = "run_continuous" /\ pc # "stopped"
  /\ uploader.running
  /\ uploader' = signal_handler(uploader)
  /\ trace' = Append(trace, Call("signal", uploader.upload_count, TRUE))
  /\ UNCHANGED <<others, pc, remaining>>

run_continuous ==
  \/ u_while \/ u_generate \/ u_put_object \/ u_max_uploads
  \/ u_if_running \/ u_for \/ u_sleep \/ u_except

NextU == run_continuous \/ signal

SpecU == InitU /\ [][NextU]_vars

\* the main thread goes on as long as it has a step to take
SpecUF == SpecU /\ WF_vars(run_continuous)

(***************************************************************************)
(* energy_api: the query endpoints and the health probe.  A request is     *)
(* one call of an endpoint function; every table query, the scan and       *)
(* head_bucket either answer or raise.  The timestamp of an item is        *)
(* modelled by its day, the dates of a request by days; the payloads carry *)
(* the counts and the items, the averages and totals computed from the     *)
(* same items are left out.                                                *)
(***************************************************************************)
MaxItems == 2
MaxDay == 2

sites == <<"SITE_001", "SITE_002", "SITE_003", "SITE_004", "SITE_005">>

Days == 1..MaxDay

ApiItems ==
  [site_id : {"SITE_001", "SITE_003"}, timestamp : Days, anomaly : BOOLEAN]

KeyOf(item) == <<item.site_id, item.timestamp>>

\* the tables: at most MaxItems items, no two with the same key
ApiTables ==
  {items \in UNION {[1..n -> ApiItems] : n \in 0..MaxItems} :
     \A j, k \in 1..Len(items) : j # k => KeyOf(items[j]) # KeyOf(items[k])}

Endpoints ==
  {"get_site_data", "get_site_anomalies", "get_site_data_by_range",
   "get_all_anomalies", "get_summary", "health_check"}

Limits == {JInt(100), JInt(4), JInt(1)}

\* the parameters of a request of endpoint
Requests(endpoint) ==
  IF endpoint = "get_site_data"
  THEN [site_id : {"SITE_001", "SITE_009"}, limit : Limits,
        start_date : {None, JInt(2)}, end_date : {None, JInt(1)}]
  ELSE IF endpoint = "get_site_anomalies"
  THEN [site_id : {"SITE_001", "SITE_009"}, limit : Limits]
  ELSE IF endpoint = "get_site_data_by_range"
  THEN [site_id : {"SITE_001", "SITE_009"}, limit : Limits,
        start_date : {JInt(1), JInt(2)}, end_date : {JInt(1), JInt(2)}]
  ELSE IF endpoint = "get_all_anomalies" THEN [limit : Limits]
  ELSE {[limit |-> None]}

\* the items of the partition site_id by ascending sort key
RECURSIVE PartitionFrom(_, _, _)
PartitionFrom(items, site_id, day) ==
  IF day > MaxDay THEN <<>>
  ELSE SelectSeq(items, LAMBDA item : KeyOf(item) = <<site_id, day>>)
       \o PartitionFrom(items, site_id, day + 1)

RECURSIVE Reversed(_)
Reversed(items) ==
  IF items = <<>> THEN <<>> ELSE Reversed(Tail(items)) \o <<Head(items)>>

FirstOf(items, n) == SubSeq(items, 1, IF n < Len(items) THEN n ELSE Len(items))

\* table.query: the partition in key order (descending unless forward),
\* its first limit items, and of these the ones the filter accepts
query(items, site_id, forward, limit, Accepts(_)) ==
  SelectSeq(FirstOf(IF forward THEN PartitionFrom(items, site_id, 1)
                    ELSE Reversed(PartitionFrom(items, site_id, 1)), limit),
            Accepts)

\* a Limit below 1 is refused before the request is sent
ValidLimit(limit) == limit # None /\ limit.n >= 1

\* a faulty handler of the exception: the failure answered as a success
HTTPException_swallowed(detail, e) ==
  [kind |-> "return", value |-> [detail |-> <<detail, e>>]]

\* raise HTTPException(status_code=500, detail=f"{detail}: {str(e)}")
HTTPException(detail, e) ==
  [kind |-> "raise", exc |-> "HTTPException", status_code |-> 500,
   detail |-> <<detail, e>>]

Counted(items, Test(_)) == Len(SelectSeq(items, Test))

IsAnomaly(item) == Get(item, "anomaly", FALSE)

\* timestamp >= start_date and timestamp <= end_date + 'T23:59:59Z', each
\* only when the date is given
InDates(item, start_date, end_date) ==
  /\ start_date # None => item.timestamp >= start_date.n
  /\ end_date # None => item.timestamp <= end_date.n

site_data(request, items) ==
  [site_id |-> request.site_id,
   query_params |-> [limit |-> request.limit,
                     start_date |-> request.start_date,
                     end_date |-> request.end_date],
   statistics |-> [total_records |-> Len(items),
                   anomaly_count |-> Counted(items, IsAnomaly)],
   records |-> items]

site_anomalies(request, items) ==
  [site_id |-> request.site_id,
   anomaly_summary |-> [total_anomalies |-> Len(items)],
   anomalies |-> items]

site_data_by_range(request, items) ==
  [site_id |-> request.site_id,
   time_range |-> [start_date |-> request.start_date,
                   end_date |-> request.end_date],
   record_count |-> Len(items),
   records |-> items]

\* the items the query of a single-site endpoint returns
site_query(endpoint, request, items) ==
  IF endpoint = "get_site_data"
  THEN query(items, request.site_id, FALSE, request.limit.n,
             LAMBDA item : InDates(item, request.start_date, request.end_date))
  ELSE IF endpoint = "get_site_anomalies"
  THEN query(items, request.site_id, FALSE, request.limit.n,
             LAMBDA item : item.anomaly)
  ELSE query(items, request.site_id, TRUE, request.limit.n,
             LAMBDA item : InDates(item, request.start_date, request.end_date))

site_payload(endpoint, request, items) ==
  IF endpoint = "get_site_data" THEN site_data(request, items)
  ELSE IF endpoint = "get_site_anomalies" THEN site_anomalies(request, items)
  ELSE site_data_by_range(request, items)

site_detail(endpoint) ==
  IF endpoint = "get_site_data" THEN "Error querying site data"
  ELSE IF endpoint = "get_site_anomalies" THEN "Error querying anomalies"
  ELSE "Error querying time range"

\* all_anomalies.sort(key=timestamp, reverse=True): stable, latest first
RECURSIVE LatestFirst(_, _)
LatestFirst(items, day) ==
  IF day < 1 THEN <<>>
  ELSE SelectSeq(items, LAMBDA item : item.timestamp = day)
       \o LatestFirst(items, day - 1)

all_anomalies_payload(items, limit) ==
  [total_anomalies |-> Len(FirstOf(LatestFirst(items, MaxDay), limit)),
   anomalies_by_site |->
     [site_id \in {item.site_id :
                     item \in {FirstOf(LatestFirst(items, MaxDay), limit)[j] :
                                 j \in 1..Len(FirstOf(LatestFirst(items, MaxDay), limit))}}
        |-> Counted(FirstOf(LatestFirst(items, MaxDay), limit),
                    LAMBDA item : item.site_id = site_id)],
   anomalies |-> FirstOf(LatestFirst(items, MaxDay), limit)]

\* the entry of summary for a site with records
site_summary(site_id, items) ==
  [site_id |-> site_id,
   record_count |-> Len(items),
   anomaly_count |-> Counted(items, IsAnomaly)]

RECURSIVE SumOf(_, _)
SumOf(entries, key) ==
  IF entries = <<>> THEN 0 ELSE Head(entries)[key] + SumOf(Tail(entries), key)

summary_payload(entries, now) ==
  [summary_timestamp |-> now,
   overall_statistics |->
     [total_sites |-> Len(entries),
      total_records |-> SumOf(entries, "record_count"),
      total_anomalies |-> SumOf(entries, "anomaly_count")],
   site_summaries |-> entries]

healthy(record_count, now) ==
  [status |-> "healthy", timestamp |-> now,
   services |-> [dynamodb |-> "connected", s3 |-> "accessible",
                 api |-> "running"],
   data_available |-> record_count > 0, version |-> "2.0.0"]

unhealthy(e, now) ==
  [status |-> "unhealthy", timestamp |-> now, error |-> e,
   version |-> "2.0.0"]

\* a health probe that does not test the blob store
health_check_table_only(ok, record_count, now) == healthy(record_count, now)

\* health_check once the scan has answered: head_bucket succeeds or raises
health_check(ok, record_count, now) ==
  IF ok THEN healthy(record_count, now) ELSE unhealthy("head_bucket", now)

InitQ ==
  /\ handler \in Endpoints
  /\ raw \in Requests(handler)
  /\ table \in ApiTables
  /\ pc = "try"
  /\ index = 1
  /\ records = <<>>
  /\ trace = <<>>
  /\ response = NoResponse
  /\ validator = "none"
  /\ outcome = NotCalled
  /\ event = "none"
  /\ s3_object = NotJson
  /\ processed_count = 0
  /\ anomaly_count = 0
  /\ anomalies_detected = <<>>
  /\ error_count = 0
  /\ error_handler = NewErrorHandler
  /\ clock = 0
  /\ uploader = NoUploader
  /\ remaining = 0

request_state == <<handler, event, s3_object, processed_count, anomaly_count,
                   anomalies_detected, error_count, error_handler, table,
                   clock, validator, raw, outcome, uploader, remaining>>

answered(result) == response' = result /\ pc' = "done"

\* an endpoint of one site: the query raises, or answers and the payload is
\* returned
q_site ==
  /\ handler \in {"get_site_data", "get_site_anomalies",
                  "get_site_data_by_range"}
  /\ pc = "try"
  /\ \E ok \in BOOLEAN :
       /\ ok => ValidLimit(raw.limit)
       /\ trace' = Append(trace, Call("query", raw.site_id, ok))
       /\ answered(IF ok
                   THEN Return(site_payload(handler, raw,
                                 site_query(handler, raw, table)))
                   ELSE HTTPException(site_detail(handler), "query"))
  /\ UNCHANGED <<request_state, index, records>>

\* entering the loop over sites
q_try ==
  /\ handler \in {"get_all_anomalies", "get_summary"}
  /\ pc = "try"
  /\ pc' = "for"
  /\ UNCHANGED <<request_state, index, records, trace, response>>

\* get_all_anomalies: the query of the next site; an exception ends the
\* request, the anomalies collected so far are dropped
q_all_anomalies ==
  /\ handler = "get_all_anomalies" /\ pc = "for"
  /\ index <= Len(sites)
  /\ \E ok \in BOOLEAN :
       /\ ok => ValidLimit(JInt(raw.limit.n \div Len(sites)))
       /\ trace' = Append(trace, Call("query", sites[index], ok))
       /\ IF ok
          THEN /\ records' = records
                             \o query(table, sites[index], FALSE,
                                      raw.limit.n \div Len(sites),
                                      LAMBDA item : item.anomaly)
               /\ index' = index + 1
               /\ UNCHANGED <<pc, response>>
          ELSE /\ answered(HTTPException("Error querying all anomalies",
                                         "query"))
               /\ UNCHANGED <<records, index>>
  /\ UNCHANGED request_state

\* get_summary: the query of the next site
q_summary ==
  /\ handler = "get_summary" /\ pc = "for"
  /\ index <= Len(sites)
  /\ \E ok \in BOOLEAN :
       /\ trace' = Append(trace, Call("query", sites[index], ok))
       /\ IF ok
          THEN /\ records' =
                    IF query(table, sites[index], TRUE, 100,
                             LAMBDA item : TRUE) = <<>>
                    THEN records
                    ELSE Append(records,
                                site_summary(sites[index],
                                  query(table, sites[index], TRUE, 100,
                                        LAMBDA item : TRUE)))
               /\ index' = index + 1
               /\ UNCHANGED <<pc, response>>
          ELSE /\ answered(HTTPException("Error generating summary", "query"))
               /\ UNCHANGED <<records, index>>
  /\ UNCHANGED request_state

\* the loop has ended: the payload is built and returned
q_return ==
  /\ handler \in {"get_all_anomalies", "get_summary"}
  /\ pc = "for"
  /\ index > Len(sites)
  /\ answered(Return(IF handler = "get_summary"
                     THEN summary_payload(records, clock)
                     ELSE all_anomalies_payload(records, raw.limit.n)))
  /\ UNCHANGED <<request_state, index, records, trace>>

\* health_check: table.scan(Limit=1) answers or raises
h_scan ==
  /\ handler = "health_check" /\ pc = "try"
  /\ \E ok \in BOOLEAN :
       /\ trace' = Append(trace, Call("scan", 1, ok))
       /\ IF ok
          THEN pc' = "head_bucket" /\ UNCHANGED response
          ELSE answered(Return(unhealthy("scan", clock)))
  /\ UNCHANGED <<request_state, index, records>>

\* health_check: head_bucket answers or raises
h_head_bucket ==
  /\ handler = "health_check" /\ pc = "head_bucket"
  /\ \E ok \in BOOLEAN :
       /\ trace' = Append(trace, Call("head_bucket", 1, ok))
       /\ answered(Return(health_check(ok, IF table = <<>> THEN 0 ELSE 1,
                                       clock)))
  /\ UNCHANGED <<request_state, index, records>>

NextQ ==
  \/ q_site \/ q_try \/ q_all_anomalies \/ q_summary \/ q_return
  \/ h_scan \/ h_head_bucket

SpecQ == InitQ /\ [][NextQ]_vars

(***************************************************************************)
(* The generators: continuous_uploader.generate_realistic_record and       *)
(* data_generator.generate_energy_record.  random.random() is drawn from   *)
(* RandomDraws, uniform(a, b) is a + (b - a) * random(); the record is     *)
(* written by json.dumps and read by json.loads before it is validated.    *)
(***************************************************************************)
\* x * y
RECURSIVE Mul(_, _)
Mul(x, y) ==
  IF x = <<>> \/ y = <<>> THEN <<>>
  ELSE Strip(Add(MulSmall(x, y[1]), <<0>> \o Mul(x, Tail(y))))

\* a * b, neither nan nor infinite: the exact product, rounded once
FloatMul(a, b) ==
  IF a.k = "zero" \/ b.k = "zero" THEN FZero
  ELSE Scaled(RoundRat(a.neg # b.neg, Mul(a.m, b.m), <<1>>), a.e + b.e)

\* a / b, b not zero, neither nan nor infinite: the exact quotient,
\* rounded once
FloatDiv(a, b) ==
  IF a.k = "zero" THEN FZero
  ELSE Scaled(RoundRat(a.neg # b.neg, a.m, b.m), a.e - b.e)

\* round(f, 2) of a finite f: the two-decimal numeral nearest to the exact
\* value of f, ties to even, read as a float
round2(f) ==
  IF f.k = "zero" THEN FZero
  ELSE ParseDec(f.neg, NearFar(DivHalf(ScaledFrac(f, 2)), -2).near, -2)

\* float(repr(f)) by the digits of repr(f)
ReadRepr(d) ==
  IF d.k = "fin" THEN ParseDec(d.neg, d.c, d.x)
  ELSE IF d.k = "inf" THEN FInf(d.neg) ELSE FNaN

\* json.loads(json.dumps(f)): the float that the numeral repr(f) reads as
json_float(f) == JFloat(ReadRepr(DecimalOfStr(f)))

json_record(record) ==
  [site_id |-> record.site_id,
   timestamp |-> record.timestamp,
   energy_generated_kwh |-> json_float(record.energy_generated_kwh),
   energy_consumed_kwh |-> json_float(record.energy_consumed_kwh)]

\* the float of the decimal c * 10^x
Dec(c, x) == ParseDec(FALSE, FromInt(c), x)

\* random(): 0.0, 0.5 and the largest value below 1.0
RandomDraws ==
  {FZero, Dec(5, -1),
   FFin(FALSE, Sub(Shl(<<1>>, MantissaBits), <<1>>), -MantissaBits)}

\* random.uniform(a, b) with the draw r of random()
uniform(a, b, r) == FloatAdd(a, FloatMul(FloatSub(b, a), r))

\* hours of the night, of the edges of the day, of noon and of the evening
Hours == {0, 6, 12, 18, 20, 23}

Magnitude(n) == IF n < 0 THEN -n ELSE n

\* 1 + 0.5 * abs(12 - hour) / 6
time_factor(hour) ==
  FloatAdd(FloatOfInt(1),
           FloatDiv(FloatMul(Dec(5, -1), FloatOfInt(Magnitude(12 - hour))),
                    FloatOfInt(6)))

\* a faulty injection: both values are made negative
injected_both(generation, consumption, anomaly, amount) ==
  IF anomaly = "none"
  THEN [generation |-> generation, consumption |-> consumption]
  ELSE [generation |-> FloatNeg(amount), consumption |-> FloatNeg(amount)]

\* if random.random() < p: one of the two values is replaced by
\* -uniform(1, 10), which one by a second draw
injected(generation, consumption, anomaly, amount) ==
  IF anomaly = "generation"
  THEN [generation |-> FloatNeg(amount), consumption |-> consumption]
  ELSE IF anomaly = "consumption"
  THEN [generation |-> generation, consumption |-> FloatNeg(amount)]
  ELSE [generation |-> generation, consumption |-> consumption]

Anomalies == {"none", "generation", "consumption"}

\* generation by the hour, before the variability
base_generation(hour, r) ==
  IF 6 <= hour /\ hour <= 18
  THEN FloatDiv(uniform(FloatOfInt(80), FloatOfInt(200), r), time_factor(hour))
  ELSE uniform(FloatOfInt(5), FloatOfInt(20), r)

base_consumption(hour, r) ==
  IF 6 <= hour /\ hour <= 22
  THEN uniform(FloatOfInt(60), FloatOfInt(140), r)
  ELSE uniform(FloatOfInt(30), FloatOfInt(70), r)

realistic_record(site_id, now, values) ==
  [site_id |-> site_id,
   timestamp |-> now,
   energy_generated_kwh |-> round2(values.generation),
   energy_consumed_kwh |-> round2(values.consumption)]

\* generate_realistic_record: d the draws of random(), in their order
generate_realistic_record(site_id, now, hour, d, anomaly) ==
  realistic_record(site_id, now,
    injected(FloatMul(base_generation(hour, d[1]),
                      uniform(Dec(8, -1), Dec(12, -1), d[3])),
             FloatMul(base_consumption(hour, d[2]),
                      uniform(Dec(9, -1), Dec(11, -1), d[4])),
             anomaly,
             uniform(FloatOfInt(1), FloatOfInt(10), d[5])))

energy_record(site_id, now, values) ==
  [site_id |-> site_id,
   timestamp |-> now,
   energy_generated_kwh |-> values.generation,
   energy_consumed_kwh |-> values.consumption]

\* data_generator.generate_energy_record: the values are rounded before
\* the injection, the injected value is not rounded
generate_energy_record(site_id, now, d, anomaly) ==
  energy_record(site_id, now,
    injected(round2(uniform(FloatOfInt(50), FloatOfInt(200), d[1])),
             round2(uniform(FloatOfInt(30), FloatOfInt(150), d[2])),
             anomaly,
             uniform(FloatOfInt(1), FloatOfInt(10), d[3])))

Generators == {"generate_realistic_record", "generate_energy_record"}

InitG ==
  /\ handler \in Generators
  /\ pc = "generate"
  /\ raw = None
  /\ validator = "none"
  /\ outcome = NotCalled
  /\ table = <<>>
  /\ index = 1
  /\ records = <<>>
  /\ trace = <<>>
  /\ response = NoResponse
  /\ event = "none"
  /\ s3_object = NotJson
  /\ processed_count = 0
  /\ anomaly_count = 0
  /\ anomalies_detected = <<>>
  /\ error_count = 0
  /\ error_handler = NewErrorHandler
  /\ clock = 0
  /\ uploader = NoUploader
  /\ remaining = 0

generation == <<handler, event, s3_object, records, index, processed_count,
                anomaly_count, anomalies_detected, error_count,
                error_handler, table, trace, clock, response, uploader,
                remaining>>

\* the record as the handler reads it from the uploaded file
generated(record) ==
  /\ raw' = json_record(record)
  /\ validator' = "error_handling"
  /\ pc' = "validate"
  /\ UNCHANGED <<generation, outcome>>

g_realistic_record ==
  /\ handler = "generate_realistic_record" /\ pc = "generate"
  /\ \E site_id \in {"SITE_001"}, hour \in Hours, d \in [1..5 -> RandomDraws],
        anomaly \in Anomalies :
       /\ anomaly = "none" => d[5] = FZero
       /\ generated(generate_realistic_record(site_id, "2024-01-15T10:30:00Z",
                                              hour, d, anomaly))

g_energy_record ==
  /\ handler = "generate_energy_record" /\ pc = "generate"
  /\ \E site_id \in {"SITE_001"}, d \in [1..3 -> RandomDraws],
        anomaly \in Anomalies :
       /\ anomaly = "none" => d[3] = FZero
       /\ generated(generate_energy_record(site_id, "2024-01-15T10:30:00Z",
                                           d, anomaly))

\* the range-checking validator is applied to the record
g_validate ==
  /\ handler \in Generators /\ pc = "validate"
  /\ outcome' = process_energy_record_with_validation(raw, clock)
  /\ pc' = "done"
  /\ UNCHANGED <<generation, raw, validator>>

NextG == g_realistic_record \/ g_energy_record \/ g_validate

SpecG == InitG /\ [][NextG]_vars

(***************************************************************************)
(* Properties.  Exact decimal arithmetic to state them with; what a raw    *)
(* value says, and what a stored Decimal says.                             *)
(***************************************************************************)
\* Decimal values compared and subtracted exactly
DecOfInt(n) == DFin(n < 0, FromInt(IF n < 0 THEN -n ELSE n), 0)

DecAligned(a, b) ==
  LET lo == IF a.x < b.x THEN a.x ELSE b.x
  IN  [a |-> MulPow10(a.c, a.x - lo), b |-> MulPow10(b.c, b.x - lo),
       x |-> lo]

DecNeg(a) == IF a.c = <<>> THEN a ELSE [a EXCEPT !.neg = ~a.neg]

DecDiff(a, b, al, c) ==
  IF c = 0 THEN DZero
  ELSE IF c > 0 THEN DFin(a.neg, Sub(al.a, al.b), al.x)
  ELSE DFin(b.neg, Sub(al.b, al.a), al.x)

DecSum(a, b, al) ==
  IF a.neg = b.neg \/ al.a = <<>> \/ al.b = <<>>
  THEN DFin(IF al.a = <<>> THEN b.neg ELSE a.neg, Add(al.a, al.b), al.x)
  ELSE DecDiff(a, b, al, CmpAligned(al))

DecAdd(a, b) == DecSum(a, b, DecAligned(a, b))

DecSub(a, b) == DecAdd(a, DecNeg(b))

DecAbs(a) == [a EXCEPT !.neg = FALSE]

DecSign(a) == IF a.c = <<>> THEN 0 ELSE IF a.neg THEN -1 ELSE 1

\* -1, 0, 1 as a <, =, > b
DecCmp(a, b) == DecSign(DecSub(a, b))

\* a validator was called and returned a record
Accepted == outcome.kind = "return" /\ outcome.value # None

\* the record has the four required fields
Complete(record) ==
  \A j \in 1..Len(required_fields) : required_fields[j] \in DOMAIN record

\* d < 0
DecNegative(d) ==
  \/ d.k = "fin" /\ d.neg /\ d.c # <<>>
  \/ d.k = "inf" /\ d.neg

\* -1000 <= d <= 10000
DecInRange(d) ==
  /\ d.k = "fin"
  /\ DecCmp(d, DecOfInt(RangeMin)) >= 0
  /\ DecCmp(d, DecOfInt(RangeMax)) <= 0

\* the raw value reads as a number (float() accepts it)
Parseable(v) == Reading(v).kind = "return"

\* rd the reading of a raw value: the value is below zero
ReadsNegative(rd) ==
  /\ rd.kind = "return"
  /\ "neg" \in DOMAIN rd.value
  /\ rd.value.neg
  /\ "c" \in DOMAIN rd.value => rd.value.c # 0

\* rd the reading of a raw value: the value lies in [-1000, 10000]
ReadsInRange(rd) ==
  /\ rd.kind = "return"
  /\ "c" \in DOMAIN rd.value
  /\ DecInRange(DFin(rd.value.neg, FromInt(rd.value.c), rd.value.x))

RawNegative(v) == ReadsNegative(Reading(v))
RawInRange(v) == ReadsInRange(Reading(v))

\* the calls of the trace with operation op
CallsOf(op) == {j \in 1..Len(trace) : trace[j].op = op}

\* the handler has returned 200
Completed == pc = "returned" /\ response.statusCode = 200

(***************************************************************************)
(* C1.  For every raw record that one of the three validators accepts, the *)
(* anomaly flag of the output is true if and only if the generated or the  *)
(* consumed energy is below zero: as the stored fields say it, and as the  *)
(* raw input says it.                                                      *)
(***************************************************************************)
FlagMatches(processed_record, record) ==
  /\ processed_record.anomaly
       <=> (\/ DecNegative(processed_record.energy_generated_kwh)
            \/ DecNegative(processed_record.energy_consumed_kwh))
  /\ processed_record.anomaly
       <=> (\/ RawNegative(record.energy_generated_kwh)
            \/ RawNegative(record.energy_consumed_kwh))

C1_AnomalyIffNegative == Accepted => FlagMatches(outcome.value, raw)

\* an accepted record flagged for its consumption alone
C1_Witness ==
  /\ Accepted
  /\ outcome.value.anomaly
  /\ ~DecNegative(outcome.value.energy_generated_kwh)
  /\ DecNegative(outcome.value.energy_consumed_kwh)

(***************************************************************************)
(* C2.  Every normalized record has anomaly = (len(anomaly_reasons) > 0);  *)
(* anomaly_reasons holds negative_generation iff generated < 0 and         *)
(* negative_consumption iff consumed < 0, no other tag, no tag twice, and  *)
(* negative_generation first when both are there.                          *)
(***************************************************************************)
ReasonsMatch(reasons, generated_negative, consumed_negative) ==
  /\ \A j \in 1..Len(reasons) :
       reasons[j] \in {"negative_generation", "negative_consumption"}
  /\ \A j \in 1..Len(reasons), k \in 1..Len(reasons) :
       j # k => reasons[j] # reasons[k]
  /\ (\E j \in 1..Len(reasons) : reasons[j] = "negative_generation")
       <=> generated_negative
  /\ (\E j \in 1..Len(reasons) : reasons[j] = "negative_consumption")
       <=> consumed_negative
  /\ Len(reasons) = 2 => reasons[1] = "negative_generation"

ReasonsOk(processed_record) ==
  /\ processed_record.anomaly = (Len(processed_record.anomaly_reasons) > 0)
  /\ ReasonsMatch(processed_record.anomaly_reasons,
                  DecNegative(processed_record.energy_generated_kwh),
                  DecNegative(processed_record.energy_consumed_kwh))

C2_ReasonsInvariant == Accepted => ReasonsOk(outcome.value)

\* an accepted record with both tags
C2_Witness == Accepted /\ Len(outcome.value.anomaly_reasons) = 2

(***************************************************************************)
(* C3.  process_energy_record_with_validation, given a record with the     *)
(* four required fields and energy values that parse as numbers, returns a *)
(* normalized record if and only if both values lie in [-1000, 10000].     *)
(* Violated: NaN parses, lies in no interval, and passes the range test.   *)
(***************************************************************************)
C3_AcceptsIffInRange ==
  (/\ validator = "error_handling"
   /\ Complete(raw)
   /\ Parseable(raw.energy_generated_kwh)
   /\ Parseable(raw.energy_consumed_kwh))
  => (outcome.kind = "return"
        <=> (/\ RawInRange(raw.energy_generated_kwh)
             /\ RawInRange(raw.energy_consumed_kwh)))

(***************************************************************************)
(* C4.  Every record that one of the three handlers has written to the     *)
(* table has both energy fields in [-1000, 10000].  Violated:              *)
(* lambda_handler and enhanced_lambda_handler make no range test.          *)
(***************************************************************************)
C4_PersistedInRange ==
  \A k \in 1..Len(table) :
    /\ DecInRange(table[k].energy_generated_kwh)
    /\ DecInRange(table[k].energy_consumed_kwh)

(***************************************************************************)
(* C5.  For a raw record that lacks required fields,                       *)
(* process_energy_record_with_validation fails with a validation failure   *)
(* that names one field: the first missing one in the order site_id,       *)
(* timestamp, energy_generated_kwh, energy_consumed_kwh.                   *)
(***************************************************************************)
FirstMissing(record) ==
  required_fields[Least({j \in 1..Len(required_fields) :
                           required_fields[j] \notin DOMAIN record})]

C5_FirstMissingNamed ==
  (validator = "error_handling" /\ ~Complete(raw))
  => outcome = Raise("ValueError",
                     <<"Record validation failed",
                       <<"Missing required field", FirstMissing(raw)>>>>)

\* a record that lacks two fields or more has been refused
C5_Witness ==
  /\ validator = "error_handling"
  /\ Cardinality(DOMAIN raw) <= 2
  /\ outcome.kind = "raise"

(***************************************************************************)
(* C6.  No validator returns a partial record: a record with a required    *)
(* field missing or an energy field that does not parse ends in a          *)
(* validation failure (a ValueError from                                   *)
(* process_energy_record_with_validation, None from the two                *)
(* process_energy_record), and every returned record has the eight fields. *)
(***************************************************************************)
Unusable(record) ==
  \/ ~Complete(record)
  \/ ~Parseable(record.energy_generated_kwh)
  \/ ~Parseable(record.energy_consumed_kwh)

NormalizedFields ==
  {"site_id", "timestamp", "energy_generated_kwh", "energy_consumed_kwh",
   "net_energy_kwh", "anomaly", "anomaly_reasons", "processed_at"}

C6_NoPartialRecord ==
  /\ (validator = "error_handling" /\ Unusable(raw))
       => (outcome.kind = "raise" /\ outcome.exc = "ValueError")
  /\ (validator \in {"lambda_processor", "anomaly_alerting"} /\ Unusable(raw))
       => outcome = Return(None)
  /\ Accepted => DOMAIN outcome.value = NormalizedFields

\* process_energy_record of lambda_processor has answered None to a
\* complete record with an energy value that does not parse
C6_Witness ==
  /\ validator = "lambda_processor"
  /\ Complete(raw)
  /\ Unusable(raw)
  /\ outcome = Return(None)

(***************************************************************************)
(* C7.  For every accepted record with both energy values in               *)
(* [-1000, 10000], site_id and timestamp are those of the input, and       *)
(* net_energy_kwh is energy_generated_kwh minus energy_consumed_kwh: as    *)
(* stated, exactly (C7_NetExact, violated by 0.3 - 0.1); as amended, to    *)
(* within 10^-11, the float subtraction being rounded.                     *)
(***************************************************************************)
BothInRange(processed_record) ==
  /\ DecInRange(processed_record.energy_generated_kwh)
  /\ DecInRange(processed_record.energy_consumed_kwh)

Copied(processed_record, record) ==
  /\ processed_record.site_id = record.site_id
  /\ processed_record.timestamp = record.timestamp

\* net - (generated - consumed)
NetError(processed_record) ==
  DecSub(processed_record.net_energy_kwh,
         DecSub(processed_record.energy_generated_kwh,
                processed_record.energy_consumed_kwh))

NetTolerance == DFin(FALSE, <<1>>, -11)

C7_NetExact ==
  (Accepted /\ BothInRange(outcome.value))
  => (Copied(outcome.value, raw) /\ DecSign(NetError(outcome.value)) = 0)

C7_NetWithinRounding ==
  (Accepted /\ BothInRange(outcome.value))
  => /\ Copied(outcome.value, raw)
     /\ DecCmp(DecAbs(NetError(outcome.value)), NetTolerance) < 0

\* an accepted record in range whose net is not the exact difference
C7_Witness ==
  /\ Accepted
  /\ BothInRange(outcome.value)
  /\ DecSign(NetError(outcome.value)) # 0

(***************************************************************************)
(* C8.  In every handler, a record that fails validation causes no table   *)
(* write and no notification: the validation is the only call made for it. *)
(***************************************************************************)
C8_FailedRecordNoEffect ==
  \A j \in CallsOf("validate") :
    ~trace[j].ok =>
      \A k \in 1..Len(trace) : trace[k].i = trace[j].i => k = j

\* a record has failed validation and a later one has been written
C8_Witness ==
  \E j \in CallsOf("validate"), k \in CallsOf("put_item") :
    ~trace[j].ok /\ j < k /\ trace[k].ok

(***************************************************************************)
(* C9.  A validation failure never stops the batch: when a handler returns *)
(* 200 every one of the N records has been visited, the processed count it *)
(* reports is the number of valid records, and in                          *)
(* enhanced_lambda_handler_with_error_handling processed_count +           *)
(* error_count = N.  Violated: a write that has used up its retries is     *)
(* caught by the loop and counted as a failed record.                      *)
(***************************************************************************)
ValidRecords == {j \in CallsOf("validate") : trace[j].ok}

\* the number of processed records that the response reports
Reported(body) ==
  IF "processed_count" \in DOMAIN body THEN body.processed_count
  ELSE body.message[2]

C9_CountsMatchBatch ==
  Completed =>
    /\ Cardinality(CallsOf("validate")) = Len(records)
    /\ Reported(response.body) = Cardinality(ValidRecords)
    /\ handler = EH =>
         response.body.processed_count + response.body.error_count
           = Len(records)

(***************************************************************************)
(* C10.  In enhanced_lambda_handler and                                    *)
(* enhanced_lambda_handler_with_error_handling every written record whose  *)
(* anomaly flag is true gets one notifier call and no other record gets    *)
(* one; the call for record i follows its validation and its write and     *)
(* precedes the validation of record i + 1; alerts_sent = anomalies_found. *)
(* Violated: enhanced_lambda_handler_with_error_handling never calls the   *)
(* notifier.                                                               *)
(***************************************************************************)
AnomaliesWritten == {k \in 1..Len(table) : table[k].anomaly}

\* the alert at position j of the trace comes right after the validation
\* and the write of its record
AlertInOrder(j) ==
  /\ j > 2
  /\ trace[j - 2] = Call("validate", trace[j].i, TRUE)
  /\ trace[j - 1] = Call("put_item", trace[j].i, TRUE)

C10_OneAlertPerAnomaly ==
  handler \in {AA, EH} =>
    /\ Cardinality(CallsOf("send_anomaly_alert"))
         = Cardinality(AnomaliesWritten)
    /\ \A j \in CallsOf("send_anomaly_alert") : AlertInOrder(j)
    /\ \A j \in CallsOf("send_anomaly_alert"),
          k \in CallsOf("send_anomaly_alert") :
         trace[j].i = trace[k].i => j = k
    /\ (Completed /\ "alerts_sent" \in DOMAIN response.body)
         => response.body.alerts_sent = response.body.anomalies_found

(***************************************************************************)
(* Properties of retry_operation and log_error, stated on the steps of     *)
(* SpecR.  A step appends its ErrorRecords to the log of the handler       *)
(* object and its calls to the trace.                                      *)
(***************************************************************************)
\* the entries that the step has appended to a sequence
Appended(before, after) == SubSeq(after, Len(before) + 1, Len(after))

RetryStep == validator' = "retry_operation" /\ clock' = clock + 1
LogStep == validator' = "log_error" /\ clock' = clock + 1

\* max_retries and backoff (a fraction) as the retry table states them
ClaimedRetries(error_type) ==
  CASE error_type = "NETWORK" -> 3
    [] error_type = "AWS_SERVICE" -> 5
    [] error_type = "STORAGE" -> 3
    [] error_type = "API" -> 2
    [] OTHER -> 1

ClaimedBackoff(error_type) ==
  CASE error_type = "NETWORK" -> <<2, 1>>
    [] error_type = "AWS_SERVICE" -> <<3, 2>>
    [] error_type = "STORAGE" -> <<2, 1>>
    [] error_type = "API" -> <<1, 1>>
    [] OTHER -> <<1, 1>>

\* how many entries of calls are calls of op
CountOf(calls, op) == Cardinality({j \in 1..Len(calls) : calls[j].op = op})

\* how many ErrorRecords of logged have the severity
CountAt(logged, severity) ==
  Cardinality({j \in 1..Len(logged) : logged[j].severity = severity})

(***************************************************************************)
(* C14.  retry_operation on an operation that always fails makes           *)
(* max_retries + 1 attempts (NETWORK 3, AWS_SERVICE 5, STORAGE 3, API 2,   *)
(* any other type 1), logs max_retries MEDIUM ErrorRecords and then one    *)
(* HIGH ErrorRecord, and re-raises the last failure.                       *)
(***************************************************************************)
Exhausted(n, new_records, new_calls, result) ==
  /\ CountOf(new_calls, "failing_operation") = n + 1
  /\ Len(new_records) = n + 1
  /\ \A j \in 1..n : new_records[j].severity = "MEDIUM"
  /\ new_records[n + 1].severity = "HIGH"
  /\ result.kind = "raise"
  /\ result.exc = ResultOf("failing_operation", n)

C14_ExhaustedRetries ==
  [][(RetryStep /\ raw'.fails > ClaimedRetries(raw'.error_type))
     => Exhausted(ClaimedRetries(raw'.error_type),
                  Appended(error_handler.logged, error_handler'.logged),
                  Appended(trace, trace'), outcome')]_vars

\* an AWS_SERVICE operation has failed six times and the failure is raised
C14_Witness ==
  /\ validator = "retry_operation"
  /\ raw.error_type = "AWS_SERVICE"
  /\ raw.fails = 6
  /\ outcome.kind = "raise"
  /\ CountAt(error_handler.logged, "HIGH") >= 1

(***************************************************************************)
(* C15.  retry_operation on an operation that fails n <= max_retries times *)
(* and then succeeds returns the value of the successful call, logs n      *)
(* MEDIUM ErrorRecords and no HIGH one, and sleeps once between two        *)
(* attempts; with max_retries = 3, backoff = 2 and n = 2 the sleeps are 1  *)
(* and then 2.                                                             *)
(***************************************************************************)
Recovered(n, error_type, new_records, new_calls, result) ==
  /\ result = Return(ResultOf("failing_operation", n))
  /\ Len(new_records) = n
  /\ \A j \in 1..n : new_records[j].severity = "MEDIUM"
  /\ Len(new_calls) = 2 * n + 1
  /\ \A j \in 1..(2 * n + 1) :
       new_calls[j].op = IF j % 2 = 1 THEN "failing_operation" ELSE "sleep"
  /\ (n = 2 /\ error_type \in {"NETWORK", "STORAGE"})
       => (new_calls[2].wait = <<1, 1>> /\ new_calls[4].wait = <<2, 1>>)

C15_RecoveredRetries ==
  [][(RetryStep /\ raw'.fails <= ClaimedRetries(raw'.error_type))
     => Recovered(raw'.fails, raw'.error_type,
                  Appended(error_handler.logged, error_handler'.logged),
                  Appended(trace, trace'), outcome')]_vars

\* a NETWORK operation has failed twice and then returned
C15_Witness ==
  /\ validator = "retry_operation"
  /\ raw.error_type = "NETWORK"
  /\ raw.fails = 2
  /\ outcome.kind = "return"
  /\ CountOf(trace, "sleep") >= 2

(***************************************************************************)
(* C16.  The delay slept before retry attempt k (attempts numbered from 0, *)
(* k >= 1): as stated, backoff ** k (C16_DelayAsStated, violated: the      *)
(* first sleep under backoff 2 is 1, not 2); as amended, backoff ** (k-1), *)
(* the power being taken of the number of the attempt that failed.         *)
(***************************************************************************)
\* the sleep at position 2k of the calls of one run precedes attempt k
DelaysAre(new_calls, backoff, shift) ==
  \A j \in 1..Len(new_calls) :
    new_calls[j].op = "sleep" =>
      new_calls[j].wait = <<backoff[1]^((j \div 2) - shift),
                            backoff[2]^((j \div 2) - shift)>>

C16_DelayAsStated ==
  [][RetryStep => DelaysAre(Appended(trace, trace'),
                            ClaimedBackoff(raw'.error_type), 0)]_vars

C16_DelayOfFailedAttempt ==
  [][RetryStep => DelaysAre(Appended(trace, trace'),
                            ClaimedBackoff(raw'.error_type), 1)]_vars

\* an AWS_SERVICE operation has slept 1, 3/2 and 9/4
C16_Witness ==
  /\ validator = "retry_operation"
  /\ raw.error_type = "AWS_SERVICE"
  /\ \E j \in 1..Len(trace) :
       trace[j].op = "sleep" /\ trace[j].wait = <<9, 4>>

(***************************************************************************)
(* C17.  An operation classified DATA_VALIDATION or AUTHENTICATION is      *)
(* never retried: retry_operation calls it once and propagates its         *)
(* failure.  Violated: both types fall under the default policy, which     *)
(* retries once.                                                           *)
(***************************************************************************)
CalledOnce(fails, new_calls, result) ==
  /\ CountOf(new_calls, "failing_operation") = 1
  /\ fails >= 1 => result.kind = "raise"

C17_NeverRetried ==
  [][(RetryStep /\ raw'.error_type \in {"DATA_VALIDATION", "AUTHENTICATION"})
     => CalledOnce(raw'.fails, Appended(trace, trace'), outcome')]_vars

(***************************************************************************)
(* C18.  log_error dispatches an alert exactly when the severity is HIGH   *)
(* or CRITICAL; it returns the ErrorRecord and does not raise, also when   *)
(* the alert transport or the log sink fails; a retry_operation that       *)
(* exhausts its retries dispatches one alert, one that succeeds none.      *)
(***************************************************************************)
AlertsOf(new_calls) == CountOf(new_calls, "send_error_alert")

LoggedWithAlert(severity, new_calls, result) ==
  /\ AlertsOf(new_calls) = IF severity \in {"HIGH", "CRITICAL"} THEN 1 ELSE 0
  /\ result.kind = "return"
  /\ result.value.severity = severity

C18_AlertIffSevere ==
  [][/\ LogStep => LoggedWithAlert(raw'.severity, Appended(trace, trace'),
                                   outcome')
     /\ RetryStep => AlertsOf(Appended(trace, trace'))
                       = IF outcome'.kind = "raise" THEN 1 ELSE 0]_vars

\* log_error at CRITICAL has returned with the log sink and the alert
\* transport both failing
C18_Witness ==
  /\ validator = "log_error"
  /\ raw.severity = "CRITICAL"
  /\ ~raw.logs_up
  /\ ~raw.sns_up
  /\ outcome.kind = "return"
  /\ trace[Len(trace)] = Call("send_error_alert", clock - 1, FALSE)

(***************************************************************************)
(* C19.  The counters start at 0; a log_error call adds 1 to the counter   *)
(* of its severity and leaves the three others alone, also when the write  *)
(* to the log sink fails; no counter decreases; every counter is the       *)
(* number of log_error calls made with its severity on the instance.       *)
(***************************************************************************)
CountersStartAtZero == \A severity \in Severities :
                         error_handler.error_counts[severity] = 0

CountersMatchLog ==
  /\ DOMAIN error_handler.error_counts = Severities
  /\ \A severity \in Severities :
       error_handler.error_counts[severity]
         = CountAt(error_handler.logged, severity)

OneCounterMoves(severity, before, after) ==
  \A other \in Severities :
    after[other] = IF other = severity THEN before[other] + 1
                   ELSE before[other]

CountersStep ==
  /\ LogStep => OneCounterMoves(raw'.severity, error_handler.error_counts,
                                error_handler'.error_counts)
  /\ \A severity \in Severities :
       error_handler'.error_counts[severity]
         >= error_handler.error_counts[severity]

C19_CountersCountCalls ==
  /\ CountersStartAtZero
  /\ []CountersMatchLog
  /\ [][CountersStep]_vars

\* two log_error calls at one severity, the log sink failing on the second
C19_Witness ==
  /\ validator = "log_error"
  /\ ~raw.logs_up
  /\ error_handler.error_counts[raw.severity] = 2

(***************************************************************************)
(* Properties of the alerts, stated on SpecA: on the direct calls of the   *)
(* two functions and on the calls that enhanced_lambda_handler makes.      *)
(***************************************************************************)
AnomalyAlertStep == validator' = "send_anomaly_alert" /\ clock' = clock + 1
SummaryStep == validator' = "send_daily_summary_alert" /\ clock' = clock + 1

IsAnomalyAlert(call) == call.op = "send_anomaly_alert"

\* the label as the reasons, taken as a set, determine it
ClaimedLabel(anomaly_reasons) ==
  LET present == {anomaly_reasons[j] : j \in 1..Len(anomaly_reasons)}
  IN  IF "negative_generation" \in present THEN "Negative Energy Generation"
      ELSE IF "negative_consumption" \in present
      THEN "Negative Energy Consumption"
      ELSE "Unknown"

\* the alerts of the handler, in order, are those of anomalies_detected
HandlerLabels(alerts) ==
  /\ Len(alerts) = Len(anomalies_detected)
  /\ \A k \in 1..Len(alerts) :
       alerts[k].message.anomaly_type
         = ClaimedLabel(anomalies_detected[k].anomaly_reasons)

\* C12.  The anomaly type label of every alert, of a direct call of
\* send_anomaly_alert and of a call made by the handler, is determined by
\* anomaly_reasons alone: "Negative Energy Generation" when
\* negative_generation is among them (with or without
\* negative_consumption, in either order), "Negative Energy Consumption"
\* when negative_consumption is and negative_generation is not, "Unknown"
\* when neither is (an empty or missing list, or other tags only).
C12_LabelFromReasons ==
  /\ validator = "send_anomaly_alert" =>
       trace[Len(trace)].message.anomaly_type
         = ClaimedLabel(Get(raw.anomaly_record, "anomaly_reasons", <<>>))
  /\ handler = AA => HandlerLabels(SelectSeq(trace, IsAnomalyAlert))

\* consumption listed before generation: the label is that of generation
C12_Witness ==
  /\ validator = "send_anomaly_alert"
  /\ "anomaly_reasons" \in DOMAIN raw.anomaly_record
  /\ raw.anomaly_record.anomaly_reasons
       = <<"negative_consumption", "negative_generation">>
  /\ trace[Len(trace)].message.anomaly_type = "Negative Energy Generation"

\* the band of the exact rate 100 * a / b, b > 0
ClaimedHealth(a, b) ==
  IF 100 * a < b THEN "Excellent"
  ELSE IF 100 * a < 5 * b THEN "Attention Needed"
  ELSE "Critical"

\* two floats of one sign at most two units in the last place apart
WithinRounding(x, y) ==
  /\ x.k = y.k
  /\ x.k = "fin" =>
       /\ x.neg = y.neg
       /\ LET al == Aligned(x, y)
          IN  Cmp(IF Cmp(al.a, al.b) >= 0 THEN Sub(al.a, al.b)
                  ELSE Sub(al.b, al.a),
                  <<2>>) <= 0

\* rate is 100 * a / b as floats compute it, b > 0
RateOf(rate, a, b) ==
  IF a = 0 THEN rate = FZero
  ELSE WithinRounding(rate, RoundRat(FALSE, FromInt(100 * a), FromInt(b)))

SummaryAsClaimed(message, a, b) ==
  /\ message.total_anomalies = a /\ message.total_records = b
  /\ IF b > 0
     THEN /\ RateOf(message.anomaly_rate, a, b)
          /\ message.health = ClaimedHealth(a, b)
     ELSE /\ message.anomaly_rate = FZero
          /\ message.health = "Excellent"
  /\ message.health
       = IF FloatLt(message.anomaly_rate, FloatOfInt(1)) THEN "Excellent"
         ELSE IF FloatLt(message.anomaly_rate, FloatOfInt(5))
         THEN "Attention Needed"
         ELSE "Critical"

\* C13.  In every call of send_daily_summary_alert the rate in the message
\* is total_anomalies / total_records * 100 (within the rounding of the
\* division and of the product) when total_records > 0 and 0 when it is 0
\* or missing; the health label is "Excellent" for a rate below 1,
\* "Attention Needed" from 1 to below 5, "Critical" from 5 on, by the rate
\* in the message and by the exact quotient of the totals alike.
C13_RateAndHealth ==
  validator = "send_daily_summary_alert" =>
    SummaryAsClaimed(trace[Len(trace)].message,
                     Get(raw.summary_data, "total_anomalies", 0),
                     Get(raw.summary_data, "total_records", 0))

\* 7 anomalies in 700 records: the rate is 1.0 exactly, and the label is
\* that of the higher band
C13_Witness ==
  /\ validator = "send_daily_summary_alert"
  /\ "total_records" \in DOMAIN raw.summary_data
  /\ raw.summary_data.total_records = 700
  /\ raw.summary_data.total_anomalies = 7
  /\ trace[Len(trace)].message.anomaly_rate = FloatOfInt(1)
  /\ trace[Len(trace)].message.health = "Attention Needed"

\* what a direct call hands to its caller: a message id, or None when the
\* publish has failed
ReturnsIdOrNone ==
  validator \in {"send_anomaly_alert", "send_daily_summary_alert"} =>
    /\ outcome.kind = "return"
    /\ outcome.value \in {None, MessageId(clock - 1)}
    /\ ~raw.sns_up => outcome.value = None
    /\ trace[Len(trace)].result = outcome

\* the calls of the handler have all returned, and a batch that is through
\* has had every record validated
HandlerAlertsReturn ==
  handler = AA =>
    /\ \A j \in CallsOf("send_anomaly_alert") :
         /\ trace[j].result.kind = "return"
         /\ trace[j].result.value \in {None, MessageId(trace[j].i)}
    /\ Completed =>
         /\ Cardinality(CallsOf("validate")) = Len(records)
         /\ response.body.anomalies_found = anomaly_count

FailedAlerts(new_calls) ==
  {j \in 1..Len(new_calls) :
     new_calls[j].op = "send_anomaly_alert" /\ ~new_calls[j].ok}

\* a turn of the loop whose alert has failed ends as one whose alert was
\* sent: the record written and counted, the handler at the next record
FailedAlertStep ==
  (handler = AA /\ FailedAlerts(Appended(trace, trace')) # {}) =>
    /\ processed_count' = processed_count + 1
    /\ anomaly_count' = anomaly_count + 1
    /\ Len(table') = Len(table) + 1
    /\ index' = index + 1
    /\ pc' = "loop" /\ pc = "loop"
    /\ response' = NoResponse

\* C11.  send_anomaly_alert and send_daily_summary_alert return to their
\* caller in every case, with None when the publish has failed (or when
\* the message could not be formatted).  In enhanced_lambda_handler a
\* failed alert leaves the turn of the loop as a sent one does: the record
\* is counted in processed_count and anomaly_count, no status is set, the
\* loop goes on to the next record, and a batch that ends with 200 has had
\* every record validated.
C11_AlertsNeverRaise ==
  /\ []ReturnsIdOrNone
  /\ []HandlerAlertsReturn
  /\ [][FailedAlertStep]_vars

\* a batch that ended with 200 after a failed alert, a record validated
\* after it
C11_Witness ==
  /\ handler = AA /\ Completed
  /\ \E j \in CallsOf("send_anomaly_alert"), k \in CallsOf("validate") :
       /\ ~trace[j].ok /\ trace[j].result = Return(None)
       /\ k > j /\ trace[k].ok

(***************************************************************************)
(* The result of an invocation, stated on Spec.                            *)
(***************************************************************************)
\* the handler is where one of its steps applies: at its start, at a record
\* of the file, or past the last one, where it returns
AtWork ==
  /\ handler \in Handlers
  /\ pc = "start" \/ (pc = "loop" /\ index \in 1..(Len(records) + 1))

\* C20.  Each of the three handlers, on a malformed event, a download that
\* fails, a file that is not JSON, table writes that fail and alerts that
\* cannot be sent, is at every moment either still at work (one of its
\* steps applies, and there is no result yet) or has returned a result
\* whose statusCode is 200 or 500; it is never left by an exception.
C20_StructuredResult ==
  /\ pc \in {"start", "loop", "returned"}
  /\ pc = "returned" => response.statusCode \in {200, 500}
  /\ pc # "returned" => response = NoResponse /\ AtWork

\* the alerting handler has answered 500 to a write that failed, the
\* error alert failing too
C20_Witness ==
  /\ handler = AA /\ pc = "returned" /\ response.statusCode = 500
  /\ Len(trace) > 2
  /\ trace[Len(trace)] = Call("publish_error", 0, FALSE)
  /\ trace[Len(trace) - 1].op = "put_item" /\ ~trace[Len(trace) - 1].ok

(***************************************************************************)
(* The three copies of the validator compared on one raw record.           *)
(***************************************************************************)
\* a processed record without its processed_at
Undated(processed_record) ==
  Restrict(processed_record, DOMAIN processed_record \ {"processed_at"})

\* two results are the same: both None, both the same exception, or records
\* equal but for processed_at
SameResult(a, b) ==
  /\ a.kind = b.kind
  /\ a.kind = "raise" => a = b
  /\ a.kind = "return" =>
       IF a.value = None \/ b.value = None THEN a.value = b.value
       ELSE Undated(a.value) = Undated(b.value)

ResultAccepts(a) == a.kind = "return" /\ a.value # None

\* the range test of process_energy_record_with_validation is reached and
\* rejects the record
RangeRejects(record) ==
  /\ Complete(record)
  /\ Parseable(record.energy_generated_kwh)
  /\ Parseable(record.energy_consumed_kwh)
  /\ \/ OutOfRange(float(record.energy_generated_kwh).value,
                   FloatOfInt(RangeMin), FloatOfInt(RangeMax))
     \/ OutOfRange(float(record.energy_consumed_kwh).value,
                   FloatOfInt(RangeMin), FloatOfInt(RangeMax))

BothRawInRange(record) ==
  /\ Complete(record)
  /\ RawInRange(record.energy_generated_kwh)
  /\ RawInRange(record.energy_consumed_kwh)

\* the claim as stated, on the results lp, aa, eh of the three copies
AgreeAsStated(record, lp, aa, eh) ==
  /\ BothRawInRange(record) =>
       /\ ResultAccepts(lp)
       /\ SameResult(lp, aa) /\ SameResult(lp, eh)
  /\ ~(SameResult(lp, aa) /\ SameResult(lp, eh) /\ SameResult(aa, eh)) =>
       /\ RangeRejects(record)
       /\ ResultAccepts(lp) /\ ResultAccepts(aa)

\* the three copies agree on what they accept; the third refuses by raising
\* where the first two return None
AgreeButForSignal(record, lp, aa, eh) ==
  /\ BothRawInRange(record) =>
       /\ ResultAccepts(lp)
       /\ SameResult(lp, aa) /\ SameResult(lp, eh)
  /\ SameResult(lp, aa)
  /\ ResultAccepts(eh) => SameResult(lp, eh)
  /\ ~ResultAccepts(eh) =>
       /\ eh.kind = "raise" /\ eh.exc = "ValueError"
       /\ IF RangeRejects(record) THEN ResultAccepts(lp)
          ELSE lp = Return(None)

\* C26 as stated.  For every raw record on which a validator has been
\* called: with all four fields and both values in [-1000, 10000] the
\* three copies return records equal but for processed_at; and wherever two
\* of the three results differ, the range test rejects the record and the
\* first two copies accept it.  Violated by a record with a missing field
\* or a value that float() rejects: the first two return None, the third
\* raises ValueError.
C26_DifferOnlyOnRange ==
  validator \in {"lambda_processor", "anomaly_alerting", "error_handling"} =>
    AgreeAsStated(raw, Return(lp_process_energy_record(raw, 0)),
                  Return(aa_process_energy_record(raw, 0)),
                  process_energy_record_with_validation(raw, 0))

\* C26 as the code has it.  With all four fields and both values in
\* [-1000, 10000] the three copies return records equal but for
\* processed_at; the first two copies agree on every record; what the third
\* accepts the first two accept with the same record; what the third
\* refuses it refuses by raising ValueError, and then either the range test
\* rejects the record and the first two accept it, or the first two return
\* None.
C26_CopiesAgree ==
  validator \in {"lambda_processor", "anomaly_alerting", "error_handling"} =>
    AgreeButForSignal(raw, Return(lp_process_energy_record(raw, 0)),
                      Return(aa_process_energy_record(raw, 0)),
                      process_energy_record_with_validation(raw, 0))

\* the third copy has refused a record that the range test rejects and
\* that the first copy accepts
C26_Witness ==
  /\ validator = "error_handling"
  /\ outcome.kind = "raise"
  /\ RangeRejects(raw)
  /\ lp_process_energy_record(raw, 0) # None

(***************************************************************************)
(* How a batch ends when an infrastructure operation fails, stated on      *)
(* Spec.                                                                   *)
(***************************************************************************)
\* the call is the dispatch of a diagnostic alert
IsErrorAlert(call) == call.op \in {"publish_error", "send_error_alert"}

\* C21.  Whenever one of the three handlers has returned statusCode 500,
\* the last call it made before returning is the dispatch of a diagnostic
\* alert, and the result is the same 500 whether that dispatch succeeded
\* or failed.  Violated: the except clause of lambda_handler prints the
\* error and returns 500 without dispatching anything.
C21_AlertBefore500 ==
  (pc = "returned" /\ response.statusCode = 500) =>
    /\ trace # <<>>
    /\ IsErrorAlert(trace[Len(trace)])
    /\ response = Failed

\* the ErrorRecords that retry_operation logs when the download or a table
\* write has used up its attempts
Exhaustions ==
  {k \in 1..Len(error_handler.logged) :
     /\ error_handler.logged[k].severity = "HIGH"
     /\ error_handler.logged[k].component
          \in {"s3_download", "dynamodb_storage"}}

\* C22.  In enhanced_lambda_handler_with_error_handling, once the download
\* or the table write of some record has exhausted its retries, the next
\* ErrorRecord is CRITICAL and the last one, the handler has returned 500,
\* and no record is validated after the exhausted operation.  Violated: an
\* exhausted table write is caught by the except clause of the loop, which
\* logs MEDIUM, counts the record in error_count and goes on with the next
\* record; the handler returns 200.
C22_ExhaustedAbortsBatch ==
  handler = EH =>
    \A k \in Exhaustions :
      /\ k + 1 = Len(error_handler.logged)
      /\ error_handler.logged[k + 1].severity = "CRITICAL"
      /\ pc = "returned" /\ response.statusCode = 500

\* the table writes that succeeded among the first n calls
WrittenBefore(n) == {k \in CallsOf("put_item") : k < n /\ trace[k].ok}

\* the batch has ended at the failed write at position j of the trace
EndedAtWrite(j) ==
  /\ pc = "returned" /\ response.statusCode = 500
  /\ Len(table) = Cardinality(WrittenBefore(j))
  /\ processed_count = Len(table)
  /\ \A k \in WrittenBefore(j) : trace[k].i < trace[j].i
  /\ \A k \in (j + 1)..Len(trace) : trace[k].op = "publish_error"
  /\ \A k \in 1..Len(trace) :
       trace[k].op \in {"validate", "put_item", "send_anomaly_alert"}
         => trace[k].i <= trace[j].i

\* C28.  In lambda_handler and enhanced_lambda_handler, a put_item that
\* raises on record i ends the batch: the handler has returned 500, the
\* table holds the records written before i and no other, record i is not
\* in processed_count, and no record after i has been validated, written
\* or alerted (the only call after the failed write is the error alert of
\* enhanced_lambda_handler).
C28_WriteFailureEndsBatch ==
  handler \in {LP, AA} =>
    \A j \in CallsOf("put_item") : ~trace[j].ok => EndedAtWrite(j)

\* the write of the second of three records has failed, the first is in
\* the table
C28_Witness ==
  /\ handler \in {LP, AA}
  /\ Len(s3_object.body) = 3
  /\ Len(table) = 1
  /\ \E j \in CallsOf("put_item") : ~trace[j].ok /\ trace[j].i = 2

(***************************************************************************)
(* C27.  Every call of retry_operation, under each error type and for an   *)
(* operation that fails any number of times first: the operation is not    *)
(* called again after a call that succeeded; it is called at most          *)
(* max_retries + 1 times; when an attempt succeeds, it has been called     *)
(* (number of that attempt + 1) times and retry_operation returns the      *)
(* value of that call; otherwise retry_operation raises the exception of   *)
(* the last call.  It never ends without the one or the other.             *)
(***************************************************************************)
\* the calls of the operation among the calls of one run, in order
AttemptsIn(new_calls) ==
  SelectSeq(new_calls, LAMBDA call : call.op = "failing_operation")

StopsAtSuccess(attempts, max_retries, result) ==
  /\ Len(attempts) \in 1..(max_retries + 1)
  /\ \A j \in 1..(Len(attempts) - 1) : ~attempts[j].ok
  /\ IF attempts[Len(attempts)].ok
     THEN result = Return(ResultOf("failing_operation", Len(attempts) - 1))
     ELSE /\ Len(attempts) = max_retries + 1
          /\ result.kind = "raise"
          /\ result.exc = ResultOf("failing_operation", max_retries)

C27_StopsAtFirstSuccess ==
  [][RetryStep => StopsAtSuccess(AttemptsIn(Appended(trace, trace')),
                                 ClaimedRetries(raw'.error_type),
                                 outcome')]_vars

\* a STORAGE operation has succeeded at its last attempt, the fourth
C27_Witness ==
  /\ validator = "retry_operation"
  /\ raw.error_type = "STORAGE"
  /\ raw.fails = 3
  /\ outcome = Return(ResultOf("failing_operation", 3))
  /\ CountOf(trace, "failing_operation") >= 4

(***************************************************************************)
(* Properties of the continuous uploader.                                  *)
(***************************************************************************)
\* C23.  In run_continuous no upload is started after the signal handler
\* has set running to false: in the trace no call of upload_batch follows
\* the signal.  Violated: running is read at the top of the loop only, and
\* a signal that arrives after that test and before upload_batch is called
\* (while generate_batch runs) does not keep the upload from starting.
C23_NoUploadAfterSignal ==
  handler = "run_continuous" =>
    \A j \in CallsOf("signal"), k \in CallsOf("upload_batch") : k < j

\* the limit of the run, 0 when there is none
LimitOf(max_uploads) == IF max_uploads = None THEN 0 ELSE max_uploads.n

\* the uploads that succeeded among calls
Succeeded(calls) ==
  Cardinality({j \in 1..Len(calls) : calls[j].op = "put_object" /\ calls[j].ok})

\* a step counts the upload that has succeeded in it, and nothing else
CountStep ==
  uploader'.upload_count
    = uploader.upload_count + Succeeded(Appended(trace, trace'))

WithinLimit ==
  /\ uploader.upload_count = Succeeded(trace)
  /\ LimitOf(raw.max_uploads) > 0 =>
       uploader.upload_count <= LimitOf(raw.max_uploads)
  /\ pc = "stopped" =>
       \/ ~uploader.running
       \/ /\ LimitOf(raw.max_uploads) > 0
          /\ uploader.upload_count = LimitOf(raw.max_uploads)

\* C29.  upload_count goes up by exactly 1 in the step in which an upload
\* succeeds and is left alone by every other step, a failed upload
\* included (upload_batch returns False); it equals the number of
\* successful uploads; with max_uploads positive it never exceeds
\* max_uploads; and, the uploads failing only finitely often, a run with
\* max_uploads positive ends, with upload_count = max_uploads unless the
\* shutdown flag has stopped it.
C29_CountAndTermination ==
  /\ [][handler = "run_continuous" => CountStep]_vars
  /\ [](handler = "run_continuous" => WithinLimit)
  /\ (LimitOf(raw.max_uploads) > 0) => <>(pc = "stopped")

\* a run with max_uploads = 2 has ended by reaching it, one upload having
\* failed on the way, no signal received
C29_Witness ==
  /\ handler = "run_continuous" /\ pc = "stopped"
  /\ uploader.running
  /\ LimitOf(raw.max_uploads) = 2 /\ uploader.upload_count = 2
  /\ \E j \in CallsOf("put_object") : ~trace[j].ok

(***************************************************************************)
(* Properties of the query endpoints and the health probe, on SpecQ.       *)
(***************************************************************************)
FailedCalls == {j \in 1..Len(trace) : ~trace[j].ok}

\* C24.  The health probe returns a result and never raises; the status is
\* "unhealthy" whenever the scan of the table or head_bucket has failed,
\* and "healthy" only when both were made and both succeeded.
C24_HealthStatus ==
  (handler = "health_check" /\ pc = "done") =>
    /\ response.kind = "return"
    /\ response.value.status \in {"healthy", "unhealthy"}
    /\ FailedCalls # {} => response.value.status = "unhealthy"
    /\ response.value.status = "healthy" =>
         /\ \E j \in CallsOf("scan") : trace[j].ok
         /\ \E j \in CallsOf("head_bucket") : trace[j].ok
         /\ FailedCalls = {}

\* the table answered, the blob store did not: unhealthy
C24_Witness ==
  /\ handler = "health_check" /\ pc = "done"
  /\ \E j \in CallsOf("scan") : trace[j].ok
  /\ \E j \in CallsOf("head_bucket") : ~trace[j].ok
  /\ response.value.status = "unhealthy"

QueryEndpoints == Endpoints \ {"health_check"}

Is500(result) ==
  /\ result.kind = "raise"
  /\ result.exc = "HTTPException"
  /\ result.status_code = 500
  /\ result.detail # <<>>

\* C25.  In every query endpoint a failed table query is answered, in the
\* step in which it fails, by the HTTPException of status 500 with its
\* detail; no further query is made, and a payload is returned only when
\* no query has failed.
C25_QueryFailureIs500 ==
  handler \in QueryEndpoints =>
    /\ FailedCalls # {} =>
         /\ pc = "done"
         /\ Is500(response)
         /\ FailedCalls = {Len(trace)}
    /\ (pc = "done" /\ response.kind = "return") => FailedCalls = {}

\* /anomalies: an anomaly of SITE_001 had been collected when the query of
\* a later site failed; the answer is the error
C25_Witness ==
  /\ handler = "get_all_anomalies" /\ pc = "done"
  /\ records # <<>>
  /\ index > 1
  /\ FailedCalls # {}
  /\ Is500(response)

(***************************************************************************)
(* Properties of the generators, on SpecG.                                 *)
(***************************************************************************)
Negative(v) == FloatLt(v.f, FZero)

InValidRange(v) ==
  ~OutOfRange(v.f, FloatOfInt(RangeMin), FloatOfInt(RangeMax))

\* C30.  A record of either generator, as the handler reads it, has the
\* four required fields, both energy values within [-1000, 10000] and at
\* most one of them negative; the range-checking validator accepts it,
\* and flags it with at most one reason, which tells the negative value.
C30_GeneratedAccepted ==
  /\ (handler \in Generators /\ pc \in {"validate", "done"}) =>
       /\ DOMAIN raw = {required_fields[j] : j \in 1..4}
       /\ InValidRange(raw.energy_generated_kwh)
       /\ InValidRange(raw.energy_consumed_kwh)
       /\ ~(Negative(raw.energy_generated_kwh)
              /\ Negative(raw.energy_consumed_kwh))
  /\ (handler \in Generators /\ pc = "done") =>
       /\ outcome.kind = "return"
       /\ Len(outcome.value.anomaly_reasons) <= 1
       /\ outcome.value.anomaly
            = (Negative(raw.energy_generated_kwh)
                 \/ Negative(raw.energy_consumed_kwh))

\* a record of generate_energy_record with the injected negative
\* consumption, accepted and flagged with that reason alone
C30_Witness ==
  /\ handler = "generate_energy_record" /\ pc = "done"
  /\ Negative(raw.energy_consumed_kwh)
  /\ outcome.kind = "return"
  /\ outcome.value.anomaly_reasons = <<"negative_consumption">>

====
